---- MODULE Spec2Model ----
(***************************************************************************)
(* Density evaluation of SMASH (density.cc): the density-type selector,    *)
(* the smearing kernel, the Eckart current accumulation and the lattice    *)
(* update with finite-difference derivatives.                              *)
(*                                                                         *)
(* Real numbers (C++ double) are fixed-point integers: the integer n       *)
(* stands for n / Scale.  Every rounding is towards zero, so that, as for  *)
(* IEEE doubles, op(-a, b) = -op(a, b).                                    *)
(***************************************************************************)
EXTENDS Integers, Sequences, FiniteSets, TLC

VARIABLES
  k_in,      \* kernel check: arguments of unnormalized_smearing_factor
  k_out,     \* kernel check: the returned pair (first, second)
  k_pc,      \* kernel check: "ready" before the call, "done" after it
  e_in,      \* current_eckart: its arguments
  e_idx,     \* current_eckart: position of the loop over plist
  jmu_pos,   \* current_eckart: running sum of the positive contributions
  jmu_neg,   \* current_eckart: running sum of the negative contributions
  djmu_dx,   \* current_eckart: the four derivative buckets
  e_out,     \* current_eckart: the returned tuple
  e_pc,      \* current_eckart: "loop" in the loop, "done" after the return
  lat,       \* the primary lattice: when_update and the nodes
  old_jmu,   \* auxiliary lattice of the currents before the update
  new_jmu,   \* auxiliary lattice of the currents after the update
  four_grad_lattice,  \* auxiliary lattice of the four-gradients
  ensembles, \* the particle ensembles (std::vector<Particles>)
  args,      \* update_lattice: the arguments of the call
  entry,     \* update_lattice: the four lattices as they were on entry
  touched,   \* update_lattice: the auxiliary pointers dereferenced so far
  l_i,       \* update_lattice: the index of the running loop
  l_pc,      \* update_lattice: the position in the function
  d_type,    \* density_factor / operator<<: the species
  d_dens,    \* density_factor / operator<<: the DensityType
  d_out,     \* density_factor: the returned weight
  os,        \* operator<<: the stream (what was written, failbit)
  d_pc,      \* "ready", then "factor" or "streamed" after the call
  configuration,   \* setup_config_and_logging: the Configuration's nodes
  extra_config,    \* setup_config_and_logging: the command-line YAML
  particles_file,  \* setup_config_and_logging: path, "" when not given
  decaymodes_file, \* setup_config_and_logging: path, "" when not given
  loglevel,        \* the default log level that was set
  warnings,        \* the keys a conflict was warned about
  s_pc,            \* setup_config_and_logging: the position in the function
  modus_config,    \* SphereModus: the "Sphere" section of the configuration
  modus,           \* SphereModus: the members the constructor sets
  particles,       \* initial_conditions: *particles
  momentum_total,  \* initial_conditions: 3-vector part of momentum_total
  sph_i,           \* initial_conditions: index of the sampling loop
  sph_pc,          \* SphereModus: the position in the code
  ph_in,           \* is_photon_reaction: the ParticleList (PDG codes)
  ph_out,          \* is_photon_reaction: the returned ReactionType
  ph_pc,           \* is_photon_reaction: "ready" before, "done" after
  root_node_,      \* Configuration: the tree of YAML nodes
  c_last,          \* Configuration: the last call and what it returned
  hash_input,      \* initalize: the strings fed into the hash context
  created_from,    \* initalize: the lists the types were created from
  gfs              \* generate_final_state: the sampling of t

kerVars == <<k_in, k_out, k_pc>>

eckVars == <<e_in, e_idx, jmu_pos, jmu_neg, djmu_dx, e_out, e_pc>>

latVars ==
  <<lat, old_jmu, new_jmu, four_grad_lattice, ensembles, args, entry,
    touched, l_i, l_pc>>

selVars == <<d_type, d_dens, d_out, os, d_pc>>

sphVars == <<modus_config, modus, particles, momentum_total, sph_i, sph_pc>>

photVars == <<ph_in, ph_out, ph_pc>>

confVars == <<root_node_, c_last, hash_input, created_from>>

sampVars == <<gfs>>

setupVars ==
  <<configuration, extra_config, particles_file, decaymodes_file, loglevel,
    warnings, s_pc>>

-----------------------------------------------------------------------------
(* Bounds of the model *)

\* largest integer coordinate (in fm) of a relative position or a particle
MaxCoord == 2
\* largest squared cutoff radius is MaxCut * MaxCut
MaxCut == 2
\* largest number of particles handed to current_eckart
MaxParticles == 2
\* number of nodes of the lattices (n_cells = {NumNodes, 1, 1})
NumNodes == 2

-----------------------------------------------------------------------------
(* double arithmetic *)

\* one unit of the fixed-point representation of double
Scale == 1000

Abs(a) == IF a < 0 THEN -a ELSE a

Sgn(a) == IF a < 0 THEN -1 ELSE IF a > 0 THEN 1 ELSE 0

\* integer quotient rounded towards zero
Quot(a, b) == Sgn(a) * Sgn(b) * (Abs(a) \div Abs(b))

\* a * b on doubles
Mul(a, b) == Quot(a * b, Scale)

\* a / b on doubles
Div(a, b) == Quot(a * Scale, b)

\* the double of an integer literal
Num(n) == n * Scale

RECURSIVE SqrtSearch(_, _, _)
SqrtSearch(n, lo, hi) ==
  IF lo >= hi THEN lo
  ELSE LET mid == (lo + hi + 1) \div 2
       IN IF mid * mid <= n THEN SqrtSearch(n, mid, hi)
          ELSE SqrtSearch(n, lo, mid - 1)

\* std::sqrt of the double a (a >= 0): floor(sqrt(a * Scale))
Sqrt(a) == SqrtSearch(a * Scale, 0, a + Scale)

\* number of terms of the series of std::exp
ExpTerms == 12

RECURSIVE ExpSeries(_, _, _, _)
ExpSeries(x, j, term, acc) ==
  IF term = 0 \/ j > ExpTerms THEN acc
  ELSE ExpSeries(x, j + 1, Quot(-(term * x), j * Scale), acc + term)

RECURSIVE Exp(_)
\* std::exp of the double x, for x <= 0; Exp(0) = 1 exactly
Exp(x) ==
  IF x > 0 THEN Num(1)
  ELSE IF -x <= Scale THEN ExpSeries(-x, 1, Scale, 0)
  ELSE Mul(Exp(x + Scale), ExpSeries(Scale, 1, Scale, 0))

-----------------------------------------------------------------------------
(* ThreeVector and FourVector *)

ThreeVector(a, b, c) == <<a, b, c>>

FourVector(a, b, c, d) == <<a, b, c, d>>

Zero3 == ThreeVector(0, 0, 0)

Zero4 == FourVector(0, 0, 0, 0)

\* FourVector::threevec
threevec(v) == ThreeVector(v[2], v[3], v[4])

\* ThreeVector::sqr
sqr3(r) == Mul(r[1], r[1]) + Mul(r[2], r[2]) + Mul(r[3], r[3])

\* ThreeVector * ThreeVector (scalar product)
Dot3(a, b) == Mul(a[1], b[1]) + Mul(a[2], b[2]) + Mul(a[3], b[3])

\* vector * double, vector + vector, vector - vector (component-wise)
VScale(v, s) == [k \in DOMAIN v |-> Mul(v[k], s)]

VAdd(a, b) == [k \in DOMAIN a |-> a[k] + b[k]]

VSub(a, b) == [k \in DOMAIN a |-> a[k] - b[k]]

-----------------------------------------------------------------------------
(* DensityParameters *)

DensityParameters(cut_sqr, tssi, norm, mode) ==
  [r_cut_sqr |-> cut_sqr, two_sig_sqr_inv |-> tssi,
   norm_factor_sf |-> norm, derivatives |-> mode]

-----------------------------------------------------------------------------
(* unnormalized_smearing_factor *)

\* the pair returned when the particle is beyond the cutoff
NoWeight == [first |-> 0, second |-> Zero3]

\* the comparison of a squared distance with the squared cutoff radius
BeyondCutoffFlipped(d_sqr, dens_par) == d_sqr < dens_par.r_cut_sqr

BeyondCutoff(d_sqr, dens_par) == d_sqr > dens_par.r_cut_sqr

\* "Distance from particle to point of interest > r_cut"
LabCutoff(r_sqr, dens_par) == BeyondCutoff(r_sqr, dens_par)

RestCutoffInclusive(r_rest_sqr, dens_par) ==
  r_rest_sqr >= dens_par.r_cut_sqr

RestCutoffOmitted(r_rest_sqr, dens_par) == FALSE

\* "Lorentz contracted distance from particle to point of interest > r_cut"
RestCutoff(r_rest_sqr, dens_par) == BeyondCutoff(r_rest_sqr, dens_par)

\* the tests of compute_gradient in the kernel and in current_eckart_impl
GradientsRequestedAlways(compute_gradient) == TRUE

GradientsRequested(compute_gradient) == compute_gradient

unnormalized_smearing_factor(r, p, m_inv, dens_par, compute_gradient) ==
  LET r_sqr == sqr3(r)
  IN IF LabCutoff(r_sqr, dens_par) THEN NoWeight
     ELSE
       LET u == VScale(p, m_inv)
           u_r_scalar == Dot3(r, threevec(u))
           r_rest_sqr == r_sqr + Mul(u_r_scalar, u_r_scalar)
       IN IF RestCutoff(r_rest_sqr, dens_par) THEN NoWeight
          ELSE
            LET sf == Mul(Exp(-Mul(r_rest_sqr, dens_par.two_sig_sqr_inv)),
                          u[1])
                sf_grad ==
                  IF GradientsRequested(compute_gradient)
                  THEN VScale(VScale(
                         VScale(VAdd(r, VScale(threevec(u), u_r_scalar)), sf),
                         dens_par.two_sig_sqr_inv), Num(2))
                  ELSE Zero3
            IN [first |-> sf, second |-> sf_grad]

-----------------------------------------------------------------------------
(* ParticleType and density_factor *)

Hadron == "Hadron"

Baryon == "Baryon"

BaryonicIsospin == "BaryonicIsospin"

Pion == "Pion"

Isospin3_tot == "Isospin3_tot"

Charge == "Charge"

Strangeness == "Strangeness"

None == "None"

DensityTypes ==
  {Hadron, Baryon, BaryonicIsospin, Pion, Isospin3_tot, Charge, Strangeness,
   None}

\* the properties of a species that density_factor reads; b, q, s are
\* integers, i3 and i3rel are doubles
ParticleType(hadron, baryon, nucleus, pion, b, q, s, i3, i3rel) ==
  [is_hadron |-> hadron, is_baryon |-> baryon, is_nucleus |-> nucleus,
   is_pion |-> pion, baryon_number |-> b, charge |-> q, strangeness |-> s,
   isospin3 |-> i3, isospin3_rel |-> i3rel]

Half == Quot(Num(1), 2)

proton == ParticleType(TRUE, TRUE, FALSE, FALSE, 1, 1, 0, Half, Num(1))

antiproton == ParticleType(TRUE, TRUE, FALSE, FALSE, -1, -1, 0, -Half, -Num(1))

pi_plus == ParticleType(TRUE, FALSE, FALSE, TRUE, 0, 1, 0, Num(1), Num(1))

pi_minus == ParticleType(TRUE, FALSE, FALSE, TRUE, 0, -1, 0, -Num(1), -Num(1))

K_plus == ParticleType(TRUE, FALSE, FALSE, FALSE, 0, 1, 1, Half, Num(1))

electron == ParticleType(FALSE, FALSE, FALSE, FALSE, 0, -1, 0, 0, 0)

He3 == ParticleType(FALSE, FALSE, TRUE, FALSE, 3, 2, 0, Half, Num(1))

neutron == ParticleType(TRUE, TRUE, FALSE, FALSE, 1, 0, 0, -Half, -Num(1))

Lambda == ParticleType(TRUE, TRUE, FALSE, FALSE, 1, 0, -1, 0, 0)

K_minus == ParticleType(TRUE, FALSE, FALSE, FALSE, 0, -1, -1, -Half, -Num(1))

pi_zero == ParticleType(TRUE, FALSE, FALSE, TRUE, 0, 0, 0, 0, 0)

photon == ParticleType(FALSE, FALSE, FALSE, FALSE, 0, 0, 0, 0, 0)

deuteron == ParticleType(FALSE, FALSE, TRUE, FALSE, 2, 1, 0, 0, 0)

Species ==
  {proton, antiproton, neutron, Lambda, pi_plus, pi_minus, pi_zero, K_plus,
   K_minus, electron, photon, He3, deuteron}

\* a DensityType value that is none of the enumerators
Unlisted == "Unlisted"

\* "case DensityType::Baryon:"
BaryonFactorFlag(type) == IF type.is_baryon THEN Num(1) ELSE 0

BaryonFactor(type) == Num(type.baryon_number)

\* "default:"
DefaultFactorOne == Num(1)

DefaultFactor == 0

density_factor(type, dens_type) ==
  CASE dens_type = Hadron -> IF type.is_hadron THEN Num(1) ELSE 0
    [] dens_type = Baryon -> BaryonFactor(type)
    [] dens_type = BaryonicIsospin ->
         IF type.is_baryon \/ type.is_nucleus THEN type.isospin3_rel ELSE 0
    [] dens_type = Pion -> IF type.is_pion THEN Num(1) ELSE 0
    [] dens_type = Isospin3_tot ->
         IF type.is_hadron THEN type.isospin3 ELSE 0
    [] dens_type = Charge -> Num(type.charge)
    [] dens_type = Strangeness -> Num(type.strangeness)
    [] OTHER -> DefaultFactor

\* std::ostream: what was written to it and its failbit
Stream(written, failbit) == [written |-> written, failbit |-> failbit]

\* operator<<(std::ostream &, DensityType)
StreamDensityType(o, dens_type) ==
  CASE dens_type = Hadron ->
         Stream(Append(o.written, "hadron density"), o.failbit)
    [] dens_type = Baryon ->
         Stream(Append(o.written, "baryon density"), o.failbit)
    [] dens_type = BaryonicIsospin ->
         Stream(Append(o.written, "baryonic isospin density"), o.failbit)
    [] dens_type = Pion ->
         Stream(Append(o.written, "pion density"), o.failbit)
    [] dens_type = Isospin3_tot ->
         Stream(Append(o.written, "total isospin3 density"), o.failbit)
    [] dens_type = None -> Stream(Append(o.written, "none"), o.failbit)
    [] OTHER -> Stream(o.written, TRUE)

-----------------------------------------------------------------------------
(* current_eckart *)

\* really_small of constants.h (1e-6): the smallest positive double of the
\* fixed-point representation
really_small == 1

\* FourVector::sqr and FourVector::abs, the invariant norm; the sums taken
\* here are time-like, where abs is the square root of sqr
sqr4(v) == Mul(v[1], v[1]) - sqr3(threevec(v))

FVabs(v) == Sqrt(Abs(sqr4(v)))

ParticleData(type, position, momentum) ==
  [type |-> type, position |-> position, momentum |-> momentum]

\* the two running sums and the derivative buckets before the loop
\* (djmu_dx[1] is the time bucket, djmu_dx[2..4] the spatial ones)
EmptySumsUnit ==
  [jmu_pos |-> <<Num(1), 0, 0, 0>>, jmu_neg |-> Zero4,
   djmu_dx |-> <<Zero4, Zero4, Zero4, Zero4>>]

EmptySums ==
  [jmu_pos |-> Zero4, jmu_neg |-> Zero4,
   djmu_dx |-> <<Zero4, Zero4, Zero4, Zero4>>]

\* the branch "if (dens_factor > 0.)" that selects the running sum
ToPositiveSumByComponent(dens_factor, tmp) == tmp[2] > 0

ToPositiveSum(dens_factor, tmp) == dens_factor > 0

\* the three passes of "for (int k = 1; k <= 3; k++)" over the buckets
RECURSIVE GradientLoop(_, _, _, _, _)
GradientLoop(d, k, tmp, grad, dens_factor) ==
  IF k > 3 THEN d
  ELSE LET spatial == VAdd(d[k + 1], VScale(tmp, grad[k]))
           time ==
             VSub(d[1],
                  [c \in 1..4 |->
                     Div(Mul(Mul(tmp[c], grad[k]), threevec(tmp)[k]),
                         dens_factor)])
       IN GradientLoop([d EXCEPT ![k + 1] = spatial, ![1] = time],
                       k + 1, tmp, grad, dens_factor)

\* "if (std::fabs(dens_factor) < really_small) continue;"
SkipsWeightSigned(dens_factor) == dens_factor < really_small

SkipsWeight(dens_factor) == Abs(dens_factor) < really_small

\* "if (m < really_small) continue;"
SkipsMass(m) == m < really_small

\* "if (smearing) ... += tmp * sf_and_grad.first; else ... += tmp;"
ContributionSmearedAlways(smearing, tmp, sf) == VScale(tmp, sf)

Contribution(smearing, tmp, sf) ==
  IF smearing THEN VScale(tmp, sf) ELSE tmp

\* "jmu_pos += ...", "jmu_neg += ..."
Overwritten(sum, add) == add

AddTo(sum, add) == VAdd(sum, add)

\* the rest of a pass, for a particle that is not skipped; the divisions by
\* the mass, by the energy and by dens_factor are all here
Accumulate(sums, p, dens_factor, r, par, compute_gradient, smearing) ==
  LET mom == p.momentum
      m == FVabs(mom)
      m_inv == Div(Num(1), m)
      sf_and_grad ==
        unnormalized_smearing_factor(
          VSub(threevec(p.position), r), mom, m_inv, par, compute_gradient)
      tmp == VScale(mom, Div(dens_factor, mom[1]))
      add == Contribution(smearing, tmp, sf_and_grad.first)
      pos == IF ToPositiveSum(dens_factor, tmp)
             THEN AddTo(sums.jmu_pos, add) ELSE sums.jmu_pos
      neg == IF ToPositiveSum(dens_factor, tmp)
             THEN sums.jmu_neg ELSE AddTo(sums.jmu_neg, add)
      d == IF GradientsRequested(compute_gradient)
           THEN GradientLoop(sums.djmu_dx, 1, tmp, sf_and_grad.second,
                             dens_factor)
           ELSE sums.djmu_dx
  IN [jmu_pos |-> pos, jmu_neg |-> neg, djmu_dx |-> d]

\* one pass of the loop "for (const auto &p : plist)"
EckartParticle(sums, p, r, par, dens_type, compute_gradient, smearing) ==
  LET dens_factor == density_factor(p.type, dens_type)
  IN IF SkipsWeight(dens_factor) THEN sums
     ELSE IF SkipsMass(FVabs(p.momentum)) THEN sums
     ELSE Accumulate(sums, p, dens_factor, r, par, compute_gradient,
                     smearing)

\* "Eckart density"
EckartDensitySum(pos, neg, par) ==
  Mul(FVabs(pos) + FVabs(neg), par.norm_factor_sf)

EckartDensity(pos, neg, par) ==
  Mul(FVabs(pos) - FVabs(neg), par.norm_factor_sf)

\* the tuple built after the loop
EckartResult(sums, par, compute_gradient) ==
  LET norm == par.norm_factor_sf
      d == sums.djmu_dx
      dj_dt == IF GradientsRequested(compute_gradient)
               THEN VScale(threevec(d[1]), norm)
               ELSE Zero3
      j_rot == IF GradientsRequested(compute_gradient)
               THEN VScale(ThreeVector(d[3][4] - d[4][3],
                                       d[4][2] - d[2][4],
                                       d[2][3] - d[3][2]), norm)
               ELSE Zero3
      rho_grad == IF GradientsRequested(compute_gradient)
                  THEN ThreeVector(Mul(d[2][1], norm), Mul(d[3][1], norm),
                                   Mul(d[4][1], norm))
                  ELSE Zero3
  IN [rho_eck |-> EckartDensity(sums.jmu_pos, sums.jmu_neg, par),
      jmu |-> VScale(VAdd(sums.jmu_pos, sums.jmu_neg), norm),
      rho_grad |-> rho_grad, dj_dt |-> dj_dt, j_rot |-> j_rot]

RECURSIVE EckartLoop(_, _, _, _, _, _, _, _)
EckartLoop(sums, plist, n, r, par, dens_type, compute_gradient, smearing) ==
  IF n > Len(plist) THEN sums
  ELSE EckartLoop(EckartParticle(sums, plist[n], r, par, dens_type,
                                 compute_gradient, smearing),
                  plist, n + 1, r, par, dens_type, compute_gradient, smearing)

\* current_eckart_impl as a function of its arguments
current_eckart(r, plist, par, dens_type, compute_gradient, smearing) ==
  EckartResult(EckartLoop(EmptySums, plist, 1, r, par, dens_type,
                          compute_gradient, smearing),
               par, compute_gradient)

-----------------------------------------------------------------------------
(* Inputs *)

\* coordinates: the integers up to MaxCoord and +-4/5
Coords ==
  {Num(c) : c \in -MaxCoord..MaxCoord} \cup {Quot(Num(4), 5), -Quot(Num(4), 5)}

\* squared cutoff radii (positive)
CutSqrs == {Num(c * c) : c \in 1..MaxCut}

\* four-momenta (E, px, py, pz) of on-shell particles of mass 1, 4, 4, 3, 5
\* and of a massless one
Momenta ==
  {FourVector(Num(1), 0, 0, 0), FourVector(Num(5), Num(3), 0, 0),
   FourVector(Num(5), -Num(3), 0, 0), FourVector(Num(5), 0, Num(4), 0),
   FourVector(Num(5), 0, 0, 0), FourVector(Num(1), Num(1), 0, 0)}

\* inverse masses handed to the kernel
InvMasses == {Div(Num(1), Num(m)) : m \in {1, 3, 4, 5}}

\* the particles of the ensembles: position (t, x, y, z) and momentum
a_proton ==
  ParticleData(proton, FourVector(0, Num(1), 0, 0),
               FourVector(Num(5), -Num(3), 0, 0))

a_antiproton ==
  ParticleData(antiproton, FourVector(0, -Num(1), 0, 0),
               FourVector(Num(5), Num(3), 0, 0))

a_pi_plus ==
  ParticleData(pi_plus, FourVector(0, 0, 0, 0), FourVector(Num(1), 0, 0, 0))

a_pi_minus ==
  ParticleData(pi_minus, FourVector(0, 0, Num(MaxCoord), 0),
               FourVector(Num(5), 0, Num(4), 0))

a_K_plus ==
  ParticleData(K_plus, FourVector(0, 0, Num(1), 0),
               FourVector(Num(5), 0, 0, 0))

an_electron ==
  ParticleData(electron, FourVector(0, 0, 0, 0),
               FourVector(Num(1), Num(1), 0, 0))

Particles ==
  {a_proton, a_antiproton, a_pi_plus, a_pi_minus, a_K_plus, an_electron}

\* particle lists of at most n particles
ParticleLists(n) == UNION {[1..k -> Particles] : k \in 0..n}

\* field points
FieldPoints == {ThreeVector(0, 0, 0), ThreeVector(Num(1), 0, 0)}

CovariantGaussian == "CovariantGaussian"

FiniteDifference == "FiniteDifference"

DerivativesModes == {CovariantGaussian, FiniteDifference}

-----------------------------------------------------------------------------
(* The kernel as a function of its arguments *)

KernelInputs ==
  [r : Coords \X Coords \X {0, Num(1)},
   p : Momenta,
   m_inv : InvMasses,
   par : {DensityParameters(c, Half, Num(1), CovariantGaussian) :
            c \in CutSqrs},
   compute_gradient : BOOLEAN]

InitKernel ==
  /\ k_in \in KernelInputs
  /\ k_out = NoWeight
  /\ k_pc = "ready"

\* the kernel is not under check
KernelOff ==
  /\ k_in = [r |-> Zero3, p |-> FourVector(Num(1), 0, 0, 0),
             m_inv |-> Num(1),
             par |-> DensityParameters(Num(1), Half, Num(1),
                                       CovariantGaussian),
             compute_gradient |-> FALSE]
  /\ k_out = NoWeight
  /\ k_pc = "off"

CallKernel ==
  /\ k_pc = "ready"
  /\ k_out' = unnormalized_smearing_factor(k_in.r, k_in.p, k_in.m_inv,
                                           k_in.par, k_in.compute_gradient)
  /\ k_pc' = "done"
  /\ UNCHANGED k_in

-----------------------------------------------------------------------------
(* current_eckart, pass by pass *)

\* cutoff 5, two_sig_sqr_inv 0.5, normalization factor 1
WideParameters ==
  DensityParameters(Mul(Num(5), Num(5)), Half, Num(1), CovariantGaussian)

EckartInputs ==
  [r : FieldPoints,
   plist : ParticleLists(MaxParticles),
   par : {DensityParameters(Num(MaxCut * MaxCut), Half, n,
                            CovariantGaussian) : n \in {Num(1), Num(2)}},
   dens_type : DensityTypes,
   compute_gradient : BOOLEAN,
   smearing : BOOLEAN]
  \cup
  [r : FieldPoints,
   plist : ParticleLists(1),
   par : {WideParameters},
   dens_type : DensityTypes,
   compute_gradient : BOOLEAN,
   smearing : BOOLEAN]

\* the inputs for the claims on whole particle lists: every list, one set
\* of parameters, the density types that give the particles in use positive,
\* negative and zero weights
EckartListInputs ==
  [r : FieldPoints,
   plist : ParticleLists(MaxParticles),
   par : {DensityParameters(Num(MaxCut * MaxCut), Half, Num(2),
                            CovariantGaussian)},
   dens_type : {Baryon, Charge},
   compute_gradient : BOOLEAN,
   smearing : BOOLEAN]

NoResult ==
  [rho_eck |-> 0, jmu |-> Zero4, rho_grad |-> Zero3, dj_dt |-> Zero3,
   j_rot |-> Zero3]

InitEckart ==
  /\ e_in \in EckartInputs
  /\ e_idx = 1
  /\ jmu_pos = EmptySums.jmu_pos
  /\ jmu_neg = EmptySums.jmu_neg
  /\ djmu_dx = EmptySums.djmu_dx
  /\ e_out = NoResult
  /\ e_pc = "loop"

InitEckartLists ==
  /\ e_in \in EckartListInputs
  /\ e_idx = 1
  /\ jmu_pos = EmptySums.jmu_pos
  /\ jmu_neg = EmptySums.jmu_neg
  /\ djmu_dx = EmptySums.djmu_dx
  /\ e_out = NoResult
  /\ e_pc = "loop"

\* current_eckart is not under check
EckartOff ==
  /\ e_in = [r |-> Zero3, plist |-> <<>>,
             par |-> DensityParameters(Num(1), Half, Num(1),
                                       CovariantGaussian),
             dens_type |-> None, compute_gradient |-> FALSE,
             smearing |-> FALSE]
  /\ e_idx = 1
  /\ jmu_pos = Zero4
  /\ jmu_neg = Zero4
  /\ djmu_dx = <<Zero4, Zero4, Zero4, Zero4>>
  /\ e_out = NoResult
  /\ e_pc = "off"

\* one pass of the loop over plist
EckartPass ==
  /\ e_pc = "loop"
  /\ e_idx <= Len(e_in.plist)
  /\ LET sums == EckartParticle(
                   [jmu_pos |-> jmu_pos, jmu_neg |-> jmu_neg,
                    djmu_dx |-> djmu_dx],
                   e_in.plist[e_idx], e_in.r, e_in.par, e_in.dens_type,
                   e_in.compute_gradient, e_in.smearing)
     IN /\ jmu_pos' = sums.jmu_pos
        /\ jmu_neg' = sums.jmu_neg
        /\ djmu_dx' = sums.djmu_dx
  /\ e_idx' = e_idx + 1
  /\ UNCHANGED <<e_in, e_out, e_pc>>

\* the code after the loop, up to the return
EckartReturn ==
  /\ e_pc = "loop"
  /\ e_idx > Len(e_in.plist)
  /\ e_out' = EckartResult([jmu_pos |-> jmu_pos, jmu_neg |-> jmu_neg,
                            djmu_dx |-> djmu_dx],
                           e_in.par, e_in.compute_gradient)
  /\ e_pc' = "done"
  /\ UNCHANGED <<e_in, e_idx, jmu_pos, jmu_neg, djmu_dx>>

-----------------------------------------------------------------------------
(* RectangularLattice and update_lattice *)

AtOutput == "AtOutput"

EveryTimestep == "EveryTimestep"

LatticeUpdates == {AtOutput, EveryTimestep}

\* node i of the code (0 <= i < number_of_nodes) is node i + 1 here
Nodes == 1..NumNodes

\* a node of the primary lattice: the net current and its four-gradient
DensityOnLattice(jmu, djmu) == [jmu_net |-> jmu, djmu_dxnu |-> djmu]

ZeroGradient == <<Zero4, Zero4, Zero4, Zero4>>

\* the nodes lie on the x axis, one cell of length 1 apart
cell_center(n) == ThreeVector(Num(n - 1), 0, 0)

RECURSIVE Concatenated(_, _)
\* the ensembles, logically concatenated
Concatenated(ens, k) ==
  IF k > Len(ens) THEN <<>> ELSE ens[k] \o Concatenated(ens, k + 1)

\* the node written by the per-node accumulation (6-argument update_lattice):
\* the smeared current of all ensembles at the node, and its analytic
\* gradient if requested
UpdatedNode(n, ens, par, dens_type, compute_gradient) ==
  LET sums == EckartLoop(EmptySums, Concatenated(ens, 1), 1, cell_center(n),
                         par, dens_type, compute_gradient, TRUE)
      norm == par.norm_factor_sf
  IN DensityOnLattice(
       VScale(VAdd(sums.jmu_pos, sums.jmu_neg), norm),
       IF compute_gradient
       THEN [k \in 1..4 |-> VScale(sums.djmu_dx[k], norm)]
       ELSE ZeroGradient)

\* compute_four_gradient_lattice: the first-order difference in time of the
\* two lattices, and the difference along x of the new one
FourGradient(new, old, time_step) ==
  [n \in Nodes |->
     <<[c \in 1..4 |-> Div(new[n][c] - old[n][c], time_step)],
       IF NumNodes = 1 THEN Zero4
       ELSE IF n = 1 THEN VSub(new[2], new[1])
       ELSE IF n = NumNodes THEN VSub(new[n], new[n - 1])
       ELSE [c \in 1..4 |-> Quot(new[n + 1][c] - new[n - 1][c], 2)],
       Zero4, Zero4>>]

\* "if (lat == nullptr || lat->when_update() != update) return;"
ReturnsAtOnceOnNull(a, l) == a.lat_null

ReturnsAtOnce(a, l) == a.lat_null \/ l.when_update # a.update

\* "par.derivatives() == DerivativesMode::FiniteDifference"
IsFiniteDifferenceAlways(par) == TRUE

IsFiniteDifference(par) == par.derivatives = FiniteDifference

\* the end of "for (int i = 0; i < number_of_nodes; i++)"
LoopDoneEarly(i) == i >= NumNodes

LoopDone(i) == i > NumNodes

\* "(*four_grad_lattice)[node_number]"
GradientOfFirstNode(fgl, node_number) == fgl[1]

GradientOfNode(fgl, node_number) == fgl[node_number]

\* where the function goes after the guard, and after the main update
AfterGuardToMain(par) == "main"

AfterGuard(par) == IF IsFiniteDifference(par) THEN "snap_old" ELSE "main"

AfterMainWithoutSnapshot(par) ==
  IF IsFiniteDifference(par) THEN "grad" ELSE "done"

AfterMain(par) == IF IsFiniteDifference(par) THEN "snap_new" ELSE "done"

\* the ensembles handed to update_lattice
EnsembleChoices ==
  {<< <<a_proton>> >>,
   << <<a_proton, a_antiproton>>, <<a_pi_plus>> >>,
   << <<a_K_plus>>, <<>> >>}

ZeroNodes == [n \in Nodes |-> DensityOnLattice(Zero4, ZeroGradient)]

ZeroCurrents == [n \in Nodes |-> Zero4]

ZeroGradients == [n \in Nodes |-> ZeroGradient]

Lattices ==
  [lat |-> lat, old_jmu |-> old_jmu, new_jmu |-> new_jmu,
   four_grad_lattice |-> four_grad_lattice]

\* the lattices are allocated with zeros; the auxiliary lattices exist
\* whenever the derivatives are finite differences
InitLattice ==
  /\ lat \in [when_update : LatticeUpdates, nodes : {ZeroNodes}]
  /\ old_jmu = ZeroCurrents
  /\ new_jmu = ZeroCurrents
  /\ four_grad_lattice = ZeroGradients
  /\ ensembles \in EnsembleChoices
  /\ args \in {a \in [lat_null : BOOLEAN, aux_null : BOOLEAN,
                      update : {AtOutput}, dens_type : {Baryon, Charge},
                      par : {DensityParameters(Num(MaxCut * MaxCut), Half,
                                               Num(1), m) :
                               m \in DerivativesModes},
                      time_step : {Half}, compute_gradient : {FALSE}] :
                 IsFiniteDifference(a.par) => ~a.aux_null}
  /\ entry = Lattices
  /\ touched = {}
  /\ l_i = 1
  /\ l_pc = "idle"

\* update_lattice is not under check
LatticeOff ==
  /\ lat = [when_update |-> AtOutput, nodes |-> ZeroNodes]
  /\ old_jmu = ZeroCurrents
  /\ new_jmu = ZeroCurrents
  /\ four_grad_lattice = ZeroGradients
  /\ ensembles = << <<>> >>
  /\ args = [lat_null |-> TRUE, aux_null |-> TRUE, update |-> AtOutput,
             dens_type |-> None,
             par |-> DensityParameters(Num(1), Half, Num(1),
                                       CovariantGaussian),
             time_step |-> Half, compute_gradient |-> FALSE]
  /\ entry = Lattices
  /\ touched = {}
  /\ l_i = 1
  /\ l_pc = "off"

\* the call, up to the guard
Call(update, compute_gradient) ==
  /\ l_pc = "idle"
  /\ args' = [args EXCEPT !.update = update,
                          !.compute_gradient = compute_gradient]
  /\ entry' = Lattices
  /\ touched' = {}
  /\ l_i' = 1
  /\ l_pc' = IF ReturnsAtOnce(args', lat) THEN "done"
             ELSE AfterGuard(args.par)
  /\ UNCHANGED <<lat, old_jmu, new_jmu, four_grad_lattice, ensembles>>

\* "old_jmu->assign_value(i, ((*lat)[i]).jmu_net());"
SnapshotOld ==
  /\ l_pc = "snap_old"
  /\ ~LoopDone(l_i)
  /\ touched' = touched \cup {"old_jmu"}
  /\ IF args.aux_null
     THEN l_pc' = "crashed" /\ UNCHANGED <<old_jmu, l_i>>
     ELSE /\ old_jmu' = [old_jmu EXCEPT ![l_i] = lat.nodes[l_i].jmu_net]
          /\ l_i' = l_i + 1
          /\ UNCHANGED l_pc
  /\ UNCHANGED <<lat, new_jmu, four_grad_lattice, ensembles, args, entry>>

SnapshotOldEnd ==
  /\ l_pc = "snap_old"
  /\ LoopDone(l_i)
  /\ l_pc' = "main"
  /\ l_i' = 1
  /\ UNCHANGED <<lat, old_jmu, new_jmu, four_grad_lattice, ensembles, args,
                 entry, touched>>

\* "update_lattice(lat, update, dens_type, par, ensembles, compute_gradient);"
MainUpdate ==
  /\ l_pc = "main"
  /\ lat' = [lat EXCEPT !.nodes =
               [n \in Nodes |->
                  UpdatedNode(n, ensembles, args.par, args.dens_type,
                              args.compute_gradient)]]
  /\ l_pc' = AfterMain(args.par)
  /\ l_i' = 1
  /\ UNCHANGED <<old_jmu, new_jmu, four_grad_lattice, ensembles, args, entry,
                 touched>>

\* "new_jmu->assign_value(i, ((*lat)[i]).jmu_net());"
SnapshotNew ==
  /\ l_pc = "snap_new"
  /\ ~LoopDone(l_i)
  /\ touched' = touched \cup {"new_jmu"}
  /\ IF args.aux_null
     THEN l_pc' = "crashed" /\ UNCHANGED <<new_jmu, l_i>>
     ELSE /\ new_jmu' = [new_jmu EXCEPT ![l_i] = lat.nodes[l_i].jmu_net]
          /\ l_i' = l_i + 1
          /\ UNCHANGED l_pc
  /\ UNCHANGED <<lat, old_jmu, four_grad_lattice, ensembles, args, entry>>

SnapshotNewEnd ==
  /\ l_pc = "snap_new"
  /\ LoopDone(l_i)
  /\ l_pc' = "grad"
  /\ l_i' = 1
  /\ UNCHANGED <<lat, old_jmu, new_jmu, four_grad_lattice, ensembles, args,
                 entry, touched>>

\* "new_jmu->compute_four_gradient_lattice(*old_jmu, time_step,
\*                                         *four_grad_lattice);"
ComputeFourGradient ==
  /\ l_pc = "grad"
  /\ touched' = touched \cup {"new_jmu", "old_jmu", "four_grad_lattice"}
  /\ IF args.aux_null
     THEN l_pc' = "crashed" /\ UNCHANGED four_grad_lattice
     ELSE /\ four_grad_lattice' =
               FourGradient(new_jmu, old_jmu, args.time_step)
          /\ l_pc' = "overwrite"
  /\ l_i' = 1
  /\ UNCHANGED <<lat, old_jmu, new_jmu, ensembles, args, entry>>

\* one pass of "for (auto &node : *lat)": overwrite_djmu_dxnu
OverwriteGradient ==
  /\ l_pc = "overwrite"
  /\ ~LoopDone(l_i)
  /\ touched' = touched \cup {"four_grad_lattice"}
  /\ lat' = [lat EXCEPT !.nodes[l_i].djmu_dxnu =
               GradientOfNode(four_grad_lattice, l_i)]
  /\ l_i' = l_i + 1
  /\ UNCHANGED <<old_jmu, new_jmu, four_grad_lattice, ensembles, args, entry,
                 l_pc>>

OverwriteGradientEnd ==
  /\ l_pc = "overwrite"
  /\ LoopDone(l_i)
  /\ l_pc' = "done"
  /\ UNCHANGED <<lat, old_jmu, new_jmu, four_grad_lattice, ensembles, args,
                 entry, touched, l_i>>

\* back in the caller
Return ==
  /\ l_pc = "done"
  /\ l_pc' = "idle"
  /\ UNCHANGED <<lat, old_jmu, new_jmu, four_grad_lattice, ensembles, args,
                 entry, touched, l_i>>

\* update_lattice runs to completion in the caller's thread
BetweenCallsOrDuring == l_pc \in {"idle", "main"}

BetweenCalls == l_pc = "idle"

\* between two calls the caller propagates the particles
Propagate ==
  /\ BetweenCalls
  /\ ensembles' \in EnsembleChoices \ {ensembles}
  /\ UNCHANGED <<lat, old_jmu, new_jmu, four_grad_lattice, args, entry,
                 touched, l_i, l_pc>>

-----------------------------------------------------------------------------
(* density_factor and operator<< as functions of their arguments *)

InitSelector ==
  /\ d_type \in Species
  /\ d_dens \in DensityTypes \cup {Unlisted}
  /\ d_out = 0
  /\ os = Stream(<<>>, FALSE)
  /\ d_pc = "ready"

\* density_factor and operator<< are not under check
SelectorOff ==
  /\ d_type = photon
  /\ d_dens = None
  /\ d_out = 0
  /\ os = Stream(<<>>, FALSE)
  /\ d_pc = "off"

CallDensityFactor ==
  /\ d_pc = "ready"
  /\ d_out' = density_factor(d_type, d_dens)
  /\ d_pc' = "factor"
  /\ UNCHANGED <<d_type, d_dens, os>>

CallStream ==
  /\ d_pc = "ready"
  /\ os' = StreamDensityType(os, d_dens)
  /\ d_pc' = "streamed"
  /\ UNCHANGED <<d_type, d_dens, d_out>>

-----------------------------------------------------------------------------
(* Configuration and setup_config_and_logging *)

\* YAML::Node: a key that is not there, a key with an empty value, or a
\* scalar (a string)
Undefined == "<undefined>"

Null == "~"

\* Configuration::has_value
has_value(n) == n # Undefined /\ n # Null

\* operator|= on the nodes of one key: a scalar or empty b replaces a
Merged(a, b) == IF b = Undefined THEN a ELSE b

\* Configuration::take with a default: the value, and the key is removed
Taken(n, default) == IF has_value(n) THEN n ELSE default

EmptyPath == ""

\* load_particles_and_decaymodes: the contents of the two files, the
\* defaults for a file that is not given
FileContents(path, default) ==
  IF path = EmptyPath THEN default ELSE "contents of " \o path

load_particles_and_decaymodes(p_file, d_file) ==
  [first |-> FileContents(p_file, "default particles"),
   second |-> FileContents(d_file, "default decaymodes")]

\* the test before "configuration[key] = ..."
TakesLoadedAlways(node, file) == TRUE

TakesLoaded(node, file) == ~has_value(node) \/ file # EmptyPath

ConfigNodes(scalar) == {Undefined, Null, scalar}

InitSetup ==
  /\ configuration \in [particles : ConfigNodes("particles of the config"),
                        decaymodes : ConfigNodes("decaymodes of the config"),
                        Logging : {Undefined, "INFO"}]
  /\ extra_config \in [particles : {Undefined, "particles of the option"},
                       decaymodes : {Undefined, "decaymodes of the option"},
                       Logging : {Undefined}]
  /\ particles_file \in {EmptyPath, "particles.txt"}
  /\ decaymodes_file \in {EmptyPath, "decaymodes.txt"}
  /\ loglevel = "unset"
  /\ warnings = {}
  /\ s_pc = "merge"

\* setup_config_and_logging is not under check
SetupOff ==
  /\ configuration = [particles |-> Undefined, decaymodes |-> Undefined,
                      Logging |-> Undefined]
  /\ extra_config = configuration
  /\ particles_file = EmptyPath
  /\ decaymodes_file = EmptyPath
  /\ loglevel = "unset"
  /\ warnings = {}
  /\ s_pc = "off"

\* "configuration.merge_yaml(config);"
MergeExtraConfig ==
  /\ s_pc = "merge"
  /\ configuration' =
       [k \in DOMAIN configuration |->
          Merged(configuration[k], extra_config[k])]
  /\ s_pc' = "logging"
  /\ UNCHANGED <<extra_config, particles_file, decaymodes_file, loglevel,
                 warnings>>

\* "set_default_loglevel(configuration.take({"Logging", "default"}, ALL));"
SetUpLogging ==
  /\ s_pc = "logging"
  /\ loglevel' = Taken(configuration.Logging, "ALL")
  /\ configuration' = [configuration EXCEPT !.Logging = Undefined]
  /\ s_pc' = "particles"
  /\ UNCHANGED <<extra_config, particles_file, decaymodes_file, warnings>>

\* the two ifs on "particles"
SetParticles ==
  /\ s_pc = "particles"
  /\ warnings' =
       IF has_value(configuration.particles) /\ particles_file # EmptyPath
       THEN warnings \cup {"particles"} ELSE warnings
  /\ configuration' =
       IF TakesLoaded(configuration.particles, particles_file)
       THEN [configuration EXCEPT !.particles =
               load_particles_and_decaymodes(particles_file,
                                             decaymodes_file).first]
       ELSE configuration
  /\ s_pc' = "decaymodes"
  /\ UNCHANGED <<extra_config, particles_file, decaymodes_file, loglevel>>

\* the two ifs on "decaymodes", and the return
SetDecaymodes ==
  /\ s_pc = "decaymodes"
  /\ warnings' =
       IF has_value(configuration.decaymodes) /\ decaymodes_file # EmptyPath
       THEN warnings \cup {"decaymodes"} ELSE warnings
  /\ configuration' =
       IF TakesLoaded(configuration.decaymodes, decaymodes_file)
       THEN [configuration EXCEPT !.decaymodes =
               load_particles_and_decaymodes(particles_file,
                                             decaymodes_file).second]
       ELSE configuration
  /\ s_pc' = "returned"
  /\ UNCHANGED <<extra_config, particles_file, decaymodes_file, loglevel>>

-----------------------------------------------------------------------------
(* SphereModus *)

MaxMultiplicity == 2

\* a key holding a double: not there, or there with its value
NotGiven == <<>>

Given(x) == <<x>>

\* Configuration::take with a default, for such a key
TakenDouble(n, default) == IF n = NotGiven THEN default ELSE n[1]

\* the modus has not been constructed
NoModus ==
  [start_time_ |-> 0, init_multipl_ |-> 0, insert_jet_ |-> FALSE,
   jet_pdg_ |-> "2212", jet_mom_ |-> 0, radial_velocity_ |-> 0]

\* a particle as Particles::create(pdg) makes it
Created(pdg) ==
  [pdgcode |-> pdg, position |-> Zero4, formation_time |-> 0,
   mass |-> 0, threevec |-> Zero3]

\* ParticleType::mass() of the types in use: pi0, pi+, proton
PoleMass(pdg) ==
  CASE pdg = "111" -> Quot(Num(135), 1000)
    [] pdg = "211" -> Quot(Num(138), 1000)
    [] OTHER -> Quot(Num(938), 1000)

\* what the random sampling of direction and magnitude may give
SampledMomenta == {<<Num(1), 0, 0>>, <<-Num(2), 0, 0>>, <<0, Num(1), 0>>}

\* positions off the centre, where the radial direction is defined
SampledPositions == {<<0, Half, 0>>, <<Half, 0, 0>>}

\* "Radius: 1.0"
Radius == Num(1)

InitSphere ==
  /\ modus_config \in
       [Start_Time : {NotGiven, Given(Num(1))},
        Init_Multiplicities : 0..MaxMultiplicity,
        Jet_PDG : {Undefined, Null, "211", "2212"},
        Jet_Momentum : {NotGiven, Given(Num(3))},
        Add_Radial_Velocity : {NotGiven, Given(Half), Given(Num(2))}]
  /\ modus = NoModus
  /\ particles = <<>>
  /\ momentum_total = Zero3
  /\ sph_i = 1
  /\ sph_pc = "construct"

\* SphereModus is not under check
SphereOff ==
  /\ modus_config = [Start_Time |-> NotGiven, Init_Multiplicities |-> 0,
                     Jet_PDG |-> Undefined, Jet_Momentum |-> NotGiven,
                     Add_Radial_Velocity |-> NotGiven]
  /\ modus = NoModus
  /\ particles = <<>>
  /\ momentum_total = Zero3
  /\ sph_i = 1
  /\ sph_pc = "off"

\* SphereModus::SphereModus
Construct ==
  /\ sph_pc = "construct"
  /\ LET insert_jet_ == has_value(modus_config.Jet_PDG)
     IN modus' =
          [start_time_ |-> TakenDouble(modus_config.Start_Time, 0),
           init_multipl_ |-> modus_config.Init_Multiplicities,
           insert_jet_ |-> insert_jet_,
           jet_pdg_ |-> IF insert_jet_ THEN modus_config.Jet_PDG
                        ELSE "2212",
           jet_mom_ |-> TakenDouble(modus_config.Jet_Momentum, Num(20)),
           radial_velocity_ |->
             TakenDouble(modus_config.Add_Radial_Velocity, -Num(1))]
  /\ sph_pc' = "create"
  /\ UNCHANGED <<modus_config, particles, momentum_total, sph_i>>

\* "particles->create(p.second * parameters.testparticles, p.first);"
CreateParticles ==
  /\ sph_pc = "create"
  /\ particles' = [i \in 1..modus.init_multipl_ |-> Created("111")]
  /\ momentum_total' = Zero3
  /\ sph_i' = 1
  /\ sph_pc' = "sample"
  /\ UNCHANGED <<modus_config, modus>>

\* one pass of the loop that fills in momentum and position
SampleParticle ==
  /\ sph_pc = "sample"
  /\ sph_i <= Len(particles)
  /\ \E mom \in SampledMomenta, pos \in SampledPositions :
       /\ particles' =
            [particles EXCEPT ![sph_i] =
               [@ EXCEPT !.mass = PoleMass(particles[sph_i].pdgcode),
                         !.threevec = mom,
                         !.position = <<modus.start_time_>> \o pos,
                         !.formation_time = modus.start_time_]]
       /\ momentum_total' = VAdd(momentum_total, mom)
  /\ sph_i' = sph_i + 1
  /\ UNCHANGED <<modus_config, modus, sph_pc>>

\* the sum of the 3-momenta of the first n particles
RECURSIVE TotalMomentum(_, _)
TotalMomentum(ps, n) ==
  IF n = 0 THEN Zero3 ELSE VAdd(TotalMomentum(ps, n - 1), ps[n].threevec)

\* the end of the loop, and the test for the radial boost
SampleEnd ==
  /\ sph_pc = "sample"
  /\ sph_i > Len(particles)
  /\ sph_pc' = IF modus.radial_velocity_ > 0
               THEN IF modus.radial_velocity_ > Num(1) THEN "thrown"
                    ELSE "boost"
               ELSE "center"
  /\ UNCHANGED <<modus_config, modus, particles, momentum_total, sph_i>>

\* FourVector::lorentz_boost of the momentum (energy, p) by the velocity v
lorentz_boost(mass, p, v) ==
  LET energy == Sqrt(Mul(mass, mass) + sqr3(p))
      gamma == Div(Num(1), Sqrt(Num(1) - sqr3(v)))
      xprime_0 == Mul(gamma, energy - Dot3(p, v))
      constantpart == Div(gamma, gamma + Num(1))
  IN VSub(p, VScale(v, Mul(constantpart, xprime_0 + energy)))

\* the velocity of the flow at a position: u_r = u_0 * r / R, inwards
RadialVelocity(radial_velocity, position) ==
  LET particle_radius == Sqrt(sqr3(position))
      e_r == [c \in 1..3 |-> Div(position[c], particle_radius)]
  IN [c \in 1..3 |->
        Div(Mul(Mul(-radial_velocity, e_r[c]), particle_radius), Radius)]

\* the total the boost loop leaves: it goes on adding to momentum_total
SumAfterBoost(total, boosted) == VAdd(total, boosted)

\* "boost in radial direction": the whole loop
RadialBoost ==
  /\ sph_pc = "boost"
  /\ particles' =
       [i \in 1..Len(particles) |->
          [particles[i] EXCEPT !.threevec =
             lorentz_boost(particles[i].mass, particles[i].threevec,
                           RadialVelocity(modus.radial_velocity_,
                                          threevec(particles[i].position)))]]
  /\ momentum_total' =
       SumAfterBoost(momentum_total,
                     TotalMomentum(particles', Len(particles)))
  /\ sph_pc' = "center"
  /\ UNCHANGED <<modus_config, modus, sph_i>>

\* "Make total 3-momentum 0"
Centered(data, total, size) ==
  [data EXCEPT !.threevec =
     VSub(data.threevec, [c \in 1..3 |-> Div(total[c], Num(size))])]

CenterMomentum ==
  /\ sph_pc = "center"
  /\ particles' =
       [i \in 1..Len(particles) |->
          Centered(particles[i], momentum_total, Len(particles))]
  /\ sph_pc' = "jet"
  /\ UNCHANGED <<modus_config, modus, momentum_total, sph_i>>

\* the 3-momentum the jet is given
JetMomentumCentered(jet_mom, total, size) ==
  VSub(ThreeVector(jet_mom, 0, 0),
       [c \in 1..3 |-> Div(total[c], Num(size + 1))])

JetMomentum(jet_mom, total, size) == ThreeVector(jet_mom, 0, 0)

\* "Add a single highly energetic particle in the center of the sphere"
InsertJet ==
  /\ sph_pc = "jet"
  /\ particles' =
       IF modus.insert_jet_
       THEN Append(particles,
                   [pdgcode |-> modus.jet_pdg_,
                    position |-> <<modus.start_time_, 0, 0, 0>>,
                    formation_time |-> modus.start_time_,
                    mass |-> PoleMass(modus.jet_pdg_),
                    threevec |-> JetMomentum(modus.jet_mom_, momentum_total,
                                             Len(particles))])
       ELSE particles
  /\ sph_pc' = "recalculate"
  /\ UNCHANGED <<modus_config, modus, momentum_total, sph_i>>

\* "Recalculate total momentum", and the return of start_time_
RecalculateAndReturn ==
  /\ sph_pc = "recalculate"
  /\ momentum_total' = TotalMomentum(particles, Len(particles))
  /\ sph_pc' = "returned"
  /\ UNCHANGED <<modus_config, modus, particles, sph_i>>

-----------------------------------------------------------------------------
(* ScatterActionPhoton::is_photon_reaction *)

\* the PDG codes in use: pions, rho mesons, eta, nucleons
PdgCodes ==
  {"pi_p", "pi_m", "pi_z", "rho_p", "rho_m", "rho_z", "eta", "p", "n"}

\* PdgCode::is_pion
is_pion(a) == a \in {"pi_p", "pi_m", "pi_z"}

\* the switch over pack(a.code(), b.code()), with the cases that are there
ReactionOf(a, b) ==
  CASE a \in {"pi_p", "pi_m"} /\ b = "rho_z" -> "pi_rho0"
    [] (a = "pi_p" /\ b = "pi_m") \/ (a = "pi_m" /\ b = "pi_p") -> "pi_pi"
    [] a = "pi_z" /\ b = "rho_z" -> "pi0_rho0"
    [] OTHER -> "no_reaction"

is_photon_reaction(in) ==
  IF Len(in) # 2 THEN "no_reaction"
  ELSE LET a == IF ~is_pion(in[1]) THEN in[2] ELSE in[1]
           b == IF ~is_pion(in[1]) THEN in[1] ELSE in[2]
       IN ReactionOf(a, b)

\* lists of no, one, two and three particles
PhotonInputs ==
  {<<>>} \cup {<<a>> : a \in PdgCodes}
  \cup {<<a, b>> : a \in PdgCodes, b \in PdgCodes}
  \cup {<<a, "pi_p", "pi_m">> : a \in PdgCodes}

InitPhoton ==
  /\ ph_in \in PhotonInputs
  /\ ph_out = "no_reaction"
  /\ ph_pc = "ready"

\* is_photon_reaction is not under check
PhotonOff ==
  /\ ph_in = <<>>
  /\ ph_out = "no_reaction"
  /\ ph_pc = "off"

CallIsPhotonReaction ==
  /\ ph_pc = "ready"
  /\ ph_out' = is_photon_reaction(ph_in)
  /\ ph_pc' = "done"
  /\ UNCHANGED ph_in

-----------------------------------------------------------------------------
(* Configuration: the tree and its member functions *)

\* keys of the root map, and keys of a map below it
TopKeys == {"particles", "decaymodes", "General"}

SubKeys == {"Modus", "End_Time"}

\* a YAML::Node below the root: its type, its scalar and, for a map, the
\* nodes of its keys (a key that is not there has an undefined node)
Leaf(kind, value) == [kind |-> kind, value |-> value]

NoNode == Leaf("Undefined", "")

NoChildren == [k \in SubKeys |-> NoNode]

Node(kind, value, children) ==
  [kind |-> kind, value |-> value, children |-> children]

Scalar(s) == Node("Scalar", s, NoChildren)

Absent == Node("Undefined", "", NoChildren)

\* Node::IsDefined, Node::IsNull, and an empty map or sequence
IsDefined(n) == n.kind # "Undefined"

IsNull(n) == n.kind = "Null"

Size(n) ==
  IF n.kind = "Map" /\ "children" \in DOMAIN n
  THEN Cardinality({k \in SubKeys : IsDefined(n.children[k])})
  ELSE 0

IsEmptyCollection(n) == n.kind \in {"Map", "Sequence"} /\ Size(n) = 0

\* the key paths in use: a key of the root, or a key of "General"
KeyPaths == {<<t>> : t \in TopKeys} \cup {<<"General", k>> : k \in SubKeys}

\* find_node_at: the node behind the keys, without its children
find_node_at(root, keys) ==
  LET top == root[keys[1]]
  IN IF Len(keys) = 1 THEN Leaf(top.kind, top.value)
     ELSE IF top.kind = "Map" THEN top.children[keys[2]]
     ELSE NoNode

\* operator<< of a node, as to_string uses it
LeafString(n) ==
  CASE n.kind = "Undefined" -> ""
    [] n.kind = "Null" -> "~"
    [] n.kind = "Scalar" -> n.value
    [] n.kind = "Sequence" -> "[]"
    [] OTHER -> "{}"

NodeString(n) ==
  IF n.kind = "Map"
  THEN "{" \o (IF IsDefined(n.children["Modus"])
               THEN "Modus: " \o LeafString(n.children["Modus"]) \o ", "
               ELSE "")
           \o (IF IsDefined(n.children["End_Time"])
               THEN "End_Time: " \o LeafString(n.children["End_Time"])
               ELSE "")
           \o "}"
  ELSE LeafString(n)

Entry(root, key) ==
  IF IsDefined(root[key]) THEN key \o ": " \o NodeString(root[key]) \o "; "
  ELSE ""

\* Configuration::to_string
to_string(root) ==
  Entry(root, "particles") \o Entry(root, "decaymodes")
  \o Entry(root, "General")

\* "node.remove(*keyIt)" on the map the last key lives in
Kept(root, keys) == root

Removed(root, keys) ==
  IF Len(keys) = 1 THEN [root EXCEPT ![keys[1]] = Absent]
  ELSE IF root[keys[1]].kind = "Map"
  THEN [root EXCEPT ![keys[1]].children[keys[2]] = NoNode]
  ELSE root

\* remove_empty_maps on a node below the root, and on the root
PrunedNode(n) ==
  IF n.kind = "Map"
  THEN [n EXCEPT !.children =
          [k \in SubKeys |->
             IF IsEmptyCollection(n.children[k]) THEN NoNode
             ELSE n.children[k]]]
  ELSE n

remove_empty_maps(root) ==
  [t \in TopKeys |->
     IF IsEmptyCollection(PrunedNode(root[t])) THEN Absent
     ELSE PrunedNode(root[t])]

\* what a call returned: the function, its keys and the result as text
Returned(op, keys, result) == [op |-> op, keys |-> keys, result |-> result]

Bool(b) == IF b THEN "true" ELSE "false"

LeafChoices ==
  {NoNode, Leaf("Scalar", "List"), Leaf("Map", ""), Leaf("Sequence", "")}

InitConfig ==
  /\ root_node_ \in
       [particles : {Absent, Node("Null", "", NoChildren),
                     Scalar("pions"), Scalar("pions and nucleons")},
        decaymodes : {Absent, Scalar("no decays"), Scalar("rho decays")},
        General : {Absent, Node("Null", "", NoChildren),
                   Node("Sequence", "", NoChildren)}
                  \cup {Node("Map", "", c) : c \in [SubKeys -> LeafChoices]}]
  /\ c_last = Returned("none", <<>>, "")
  /\ hash_input = <<>>
  /\ created_from = <<>>

\* the Configuration is not under check
ConfigOff ==
  /\ root_node_ = <<>>
  /\ c_last = Returned("off", <<>>, "")
  /\ hash_input = <<>>
  /\ created_from = <<>>

Constructed == c_last.op # "off"

\* Configuration::take
take(keys) ==
  /\ Constructed
  /\ c_last' = Returned("take", keys,
                        LeafString(find_node_at(root_node_, keys)))
  /\ root_node_' = Removed(root_node_, keys)
  /\ UNCHANGED <<hash_input, created_from>>

\* Configuration::read
read(keys) ==
  /\ Constructed
  /\ c_last' = Returned("read", keys,
                        LeafString(find_node_at(root_node_, keys)))
  /\ UNCHANGED <<root_node_, hash_input, created_from>>

\* Configuration::has_value and has_value_including_empty
HasValue(keys) ==
  /\ Constructed
  /\ c_last' = Returned("has_value", keys,
                        Bool(IsDefined(find_node_at(root_node_, keys))
                             /\ ~IsNull(find_node_at(root_node_, keys))))
  /\ UNCHANGED <<root_node_, hash_input, created_from>>

HasValueIncludingEmpty(keys) ==
  /\ Constructed
  /\ c_last' = Returned("has_value_including_empty", keys,
                        Bool(IsDefined(find_node_at(root_node_, keys))))
  /\ UNCHANGED <<root_node_, hash_input, created_from>>

\* Configuration::unused_values_report: the nodes are handles to one tree,
\* so what remove_empty_maps removes is removed from root_node_
unused_values_report ==
  /\ Constructed
  /\ root_node_' = remove_empty_maps(root_node_)
  /\ c_last' = Returned("unused_values_report", <<>>, to_string(root_node_'))
  /\ UNCHANGED <<hash_input, created_from>>

\* initalize, for a configuration that has both lists
initalize(version) ==
  /\ Constructed
  /\ IsDefined(root_node_.particles) /\ ~IsNull(root_node_.particles)
  /\ IsDefined(root_node_.decaymodes)
  /\ LET particles_taken == LeafString(find_node_at(root_node_,
                                                    <<"particles">>))
         after_first == Removed(root_node_, <<"particles">>)
         decaymodes_taken == LeafString(find_node_at(after_first,
                                                     <<"decaymodes">>))
         after_both == Removed(after_first, <<"decaymodes">>)
         particle_string == NodeString(after_both["particles"])
         decay_string == NodeString(after_both["decaymodes"])
     IN /\ created_from' = <<particles_taken, decaymodes_taken>>
        /\ root_node_' = after_both
        /\ hash_input' = <<version, particle_string, decay_string>>
  /\ c_last' = Returned("initalize", <<>>, "")

-----------------------------------------------------------------------------
(* ScatterActionPhoton::generate_final_state: the sampling of t *)

\* "&& iteration_number < 100"
MaxIterations == 100

\* a float has fewer digits than a double: the floats are the multiples of
\* FloatStep units of the doubles
FloatStep == 4

\* the conversion of a double to float: the nearest float, ties to even
Narrowed(x) ==
  LET q == x \div FloatStep
      r == x % FloatStep
  IN IF 2 * r < FloatStep THEN q * FloatStep
     ELSE IF 2 * r > FloatStep THEN (q + 1) * FloatStep
     ELSE IF q % 2 = 0 THEN q * FloatStep
     ELSE (q + 1) * FloatStep

\* Random::uniform(min, max): some value of the range
Uniform(min, max) == IF min < max THEN min..(max - 1) ELSE {min}

\* what diff_cross_section may return
DiffCrossSections == {-1, 0, 1}

\* the range of t that get_t_range gives: "assert(t1 < t2);"
TRanges == {r \in [t1 : {-6, -5, -4}, t2 : {-1, 0}] : r.t1 < r.t2}

\* t1, t2, t, diff_xsection_max, iteration_number and the position in the
\* code
Sampling(t1, t2, t, diff_xsection_max, iteration_number, pc) ==
  [t1 |-> t1, t2 |-> t2, t |-> t, diff_xsection_max |-> diff_xsection_max,
   iteration_number |-> iteration_number, pc |-> pc]

InitSampling ==
  \E r \in TRanges : gfs = Sampling(r.t1, r.t2, 0, 0, 0, "scan")

\* generate_final_state is not under check
SamplingOff == gfs = Sampling(-4, 0, 0, 0, 0, "off")

\* "for (double t = t1; t < t2; t += stepsize)": the maximum goes into a
\* variable declared in the body of the loop, which is gone after the loop
ScanMaximum ==
  /\ gfs.pc = "scan"
  /\ gfs' = [gfs EXCEPT !.pc = "init"]

\* "float t = Random::uniform(t1, t2); float diff_xsection_max = 0;
\*  int iteration_number = 0;"
InitialDraw ==
  /\ gfs.pc = "init"
  /\ \E u \in Uniform(gfs.t1, gfs.t2) :
       gfs' = [gfs EXCEPT !.t = Narrowed(u), !.diff_xsection_max = 0,
                          !.iteration_number = 0, !.pc = "draw"]

\* the body of the do loop
Draw ==
  /\ gfs.pc = "draw"
  /\ \E u \in Uniform(gfs.t1, gfs.t2) :
       gfs' = [gfs EXCEPT !.t = Narrowed(u),
                          !.iteration_number = @ + 1, !.pc = "test"]

\* the condition of the do loop
Rejected(xs, threshold, iteration_number) ==
  xs < threshold /\ iteration_number < MaxIterations

Test ==
  /\ gfs.pc = "test"
  /\ \E xs \in DiffCrossSections,
        threshold \in Uniform(0, gfs.diff_xsection_max) :
       gfs' = [gfs EXCEPT !.pc =
                 IF Rejected(xs, threshold, gfs.iteration_number)
                 THEN "draw" ELSE "sampled"]

-----------------------------------------------------------------------------
(* Specifications *)

vars ==
  <<kerVars, eckVars, latVars, selVars, setupVars, sphVars, photVars,
   confVars, sampVars>>

\* the state of all functions but one
notKernel ==
  <<eckVars, latVars, selVars, setupVars, sphVars, photVars, confVars,
   sampVars>>

notEckart ==
  <<kerVars, latVars, selVars, setupVars, sphVars, photVars, confVars,
   sampVars>>

notLattice ==
  <<kerVars, eckVars, selVars, setupVars, sphVars, photVars, confVars,
   sampVars>>

notSelector ==
  <<kerVars, eckVars, latVars, setupVars, sphVars, photVars, confVars,
   sampVars>>

notSetup ==
  <<kerVars, eckVars, latVars, selVars, sphVars, photVars, confVars,
   sampVars>>

notSphere ==
  <<kerVars, eckVars, latVars, selVars, setupVars, photVars, confVars,
   sampVars>>

notPhoton ==
  <<kerVars, eckVars, latVars, selVars, setupVars, sphVars, confVars,
   sampVars>>

notConfig ==
  <<kerVars, eckVars, latVars, selVars, setupVars, sphVars, photVars,
   sampVars>>

notSampling ==
  <<kerVars, eckVars, latVars, selVars, setupVars, sphVars, photVars,
   confVars>>

NextKernel == CallKernel /\ UNCHANGED notKernel

InitSpecKernel ==
  InitKernel /\ EckartOff /\ LatticeOff /\ SelectorOff /\ SetupOff
  /\ SphereOff
  /\ PhotonOff
  /\ ConfigOff
  /\ SamplingOff

SpecKernel == InitSpecKernel /\ [][NextKernel]_vars

NextEckart ==
  \/ EckartPass /\ UNCHANGED notEckart
  \/ EckartReturn /\ UNCHANGED notEckart

InitSpecEckart ==
  InitEckart /\ KernelOff /\ LatticeOff /\ SelectorOff /\ SetupOff
  /\ SphereOff
  /\ PhotonOff
  /\ ConfigOff
  /\ SamplingOff

SpecEckart == InitSpecEckart /\ [][NextEckart]_vars

InitSpecEckartLists ==
  InitEckartLists /\ KernelOff /\ LatticeOff /\ SelectorOff /\ SetupOff
  /\ SphereOff
  /\ PhotonOff
  /\ ConfigOff
  /\ SamplingOff

SpecEckartLists == InitSpecEckartLists /\ [][NextEckart]_vars

NextLattice ==
  \/ \E u \in LatticeUpdates, g \in BOOLEAN :
       Call(u, g) /\ UNCHANGED notLattice
  \/ SnapshotOld /\ UNCHANGED notLattice
  \/ SnapshotOldEnd /\ UNCHANGED notLattice
  \/ MainUpdate /\ UNCHANGED notLattice
  \/ SnapshotNew /\ UNCHANGED notLattice
  \/ SnapshotNewEnd /\ UNCHANGED notLattice
  \/ ComputeFourGradient /\ UNCHANGED notLattice
  \/ OverwriteGradient /\ UNCHANGED notLattice
  \/ OverwriteGradientEnd /\ UNCHANGED notLattice
  \/ Return /\ UNCHANGED notLattice
  \/ Propagate /\ UNCHANGED notLattice

InitSpecLattice ==
  InitLattice /\ KernelOff /\ EckartOff /\ SelectorOff /\ SetupOff
  /\ SphereOff
  /\ PhotonOff
  /\ ConfigOff
  /\ SamplingOff

SpecLattice == InitSpecLattice /\ [][NextLattice]_vars

NextSelector ==
  \/ CallDensityFactor /\ UNCHANGED notSelector
  \/ CallStream /\ UNCHANGED notSelector

InitSpecSelector ==
  InitSelector /\ KernelOff /\ EckartOff /\ LatticeOff /\ SetupOff
  /\ SphereOff
  /\ PhotonOff
  /\ ConfigOff
  /\ SamplingOff

SpecSelector == InitSpecSelector /\ [][NextSelector]_vars

NextSetup ==
  \/ MergeExtraConfig /\ UNCHANGED notSetup
  \/ SetUpLogging /\ UNCHANGED notSetup
  \/ SetParticles /\ UNCHANGED notSetup
  \/ SetDecaymodes /\ UNCHANGED notSetup

InitSpecSetup ==
  InitSetup /\ KernelOff /\ EckartOff /\ LatticeOff /\ SelectorOff
  /\ SphereOff
  /\ PhotonOff
  /\ ConfigOff
  /\ SamplingOff

SpecSetup == InitSpecSetup /\ [][NextSetup]_vars

NextSphere ==
  \/ Construct /\ UNCHANGED notSphere
  \/ CreateParticles /\ UNCHANGED notSphere
  \/ SampleParticle /\ UNCHANGED notSphere
  \/ RadialBoost /\ UNCHANGED notSphere
  \/ SampleEnd /\ UNCHANGED notSphere
  \/ CenterMomentum /\ UNCHANGED notSphere
  \/ InsertJet /\ UNCHANGED notSphere
  \/ RecalculateAndReturn /\ UNCHANGED notSphere

InitSpecSphere ==
  InitSphere /\ KernelOff /\ EckartOff /\ LatticeOff /\ SelectorOff
  /\ SetupOff
  /\ PhotonOff
  /\ ConfigOff
  /\ SamplingOff

SpecSphere == InitSpecSphere /\ [][NextSphere]_vars

NextPhoton == CallIsPhotonReaction /\ UNCHANGED notPhoton

InitSpecPhoton ==
  InitPhoton /\ KernelOff /\ EckartOff /\ LatticeOff /\ SelectorOff
  /\ SetupOff /\ SphereOff
  /\ ConfigOff
  /\ SamplingOff

SpecPhoton == InitSpecPhoton /\ [][NextPhoton]_vars

NextConfig ==
  \/ \E keys \in KeyPaths : take(keys) /\ UNCHANGED notConfig
  \/ \E keys \in KeyPaths : read(keys) /\ UNCHANGED notConfig
  \/ \E keys \in KeyPaths : HasValue(keys) /\ UNCHANGED notConfig
  \/ \E keys \in KeyPaths : HasValueIncludingEmpty(keys) /\ UNCHANGED notConfig
  \/ unused_values_report /\ UNCHANGED notConfig
  \/ \E version \in {"SMASH-3.0"} : initalize(version) /\ UNCHANGED notConfig

InitSpecConfig ==
  InitConfig /\ KernelOff /\ EckartOff /\ LatticeOff /\ SelectorOff
  /\ SetupOff /\ SphereOff /\ PhotonOff
  /\ SamplingOff

SpecConfig == InitSpecConfig /\ [][NextConfig]_vars

NextSampling ==
  \/ ScanMaximum /\ UNCHANGED notSampling
  \/ InitialDraw /\ UNCHANGED notSampling
  \/ Draw /\ UNCHANGED notSampling
  \/ Test /\ UNCHANGED notSampling

InitSpecSampling ==
  InitSampling /\ KernelOff /\ EckartOff /\ LatticeOff /\ SelectorOff
  /\ SetupOff /\ SphereOff /\ PhotonOff /\ ConfigOff

SpecSampling == InitSpecSampling /\ [][NextSampling]_vars

-----------------------------------------------------------------------------
(* Claims on density_factor and operator<< *)

\* C12: density_factor with DensityType::Baryon returns exactly the baryon
\* number of the species, hence 0 for every species of baryon number 0.
C12_BaryonNumber ==
  (d_pc = "factor" /\ d_dens = "Baryon") =>
    /\ d_out = d_type.baryon_number * Scale
    /\ (d_type.baryon_number = 0 => d_out = 0)

\* a nucleus, which is no baryon and has baryon number 3
C12_Witness ==
  /\ d_pc = "factor"
  /\ d_dens = "Baryon"
  /\ ~d_type.is_baryon
  /\ d_out = 3 * Scale

\* C13: density_factor is total: for every species and every DensityType
\* value it returns a number, and for DensityType::None or any tag without a
\* rule of its own it returns 0.
C13_TotalDefaultZero ==
  d_pc = "factor" =>
    /\ d_out \in Int
    /\ (d_dens \notin {"Hadron", "Baryon", "BaryonicIsospin", "Pion",
                       "Isospin3_tot", "Charge", "Strangeness"}
          => d_out = 0)

\* a charged strange hadron with DensityType::None
C13_Witness ==
  /\ d_pc = "factor"
  /\ d_dens = "None"
  /\ d_type.is_hadron
  /\ d_type.charge # 0
  /\ d_type.strangeness # 0
  /\ d_out = 0

\* C14: every DensityType value (Hadron, Baryon, BaryonicIsospin, Pion,
\* Isospin3_tot, Charge, Strangeness, None) has a label: streaming it with
\* operator<< writes a label and does not put the stream into a failed state.
C14_EveryTypeHasLabel ==
  (d_pc = "streamed"
     /\ d_dens \in {"Hadron", "Baryon", "BaryonicIsospin", "Pion",
                    "Isospin3_tot", "Charge", "Strangeness", "None"})
    => (Len(os.written) = 1 /\ ~os.failbit)

-----------------------------------------------------------------------------
(* Claims on update_lattice *)

\* the call is in progress or has just returned
InCall == l_pc \notin {"off", "idle"}

\* the guard of the call lets it through
Effective == ~args.lat_null /\ lat.when_update = args.update

FiniteDifferenceMode == args.par.derivatives = FiniteDifference

\* C1: update_lattice is a no-op whenever lat is null or lat->when_update()
\* differs from the requested update tag: it returns at once, no node of the
\* primary lattice, of old_jmu, of new_jmu or of four_grad_lattice is written,
\* in either derivative mode, and no auxiliary pointer is dereferenced.
C1_NoOp ==
  (InCall /\ (args.lat_null \/ lat.when_update # args.update)) =>
    /\ l_pc = "done"
    /\ lat = entry.lat
    /\ old_jmu = entry.old_jmu
    /\ new_jmu = entry.new_jmu
    /\ four_grad_lattice = entry.four_grad_lattice
    /\ touched = {}

\* a call with the wrong tag has returned, in finite-difference mode, with
\* lattices that an earlier call has filled
C1_Witness ==
  /\ l_pc = "done"
  /\ ~args.lat_null
  /\ lat.when_update # args.update
  /\ FiniteDifferenceMode
  /\ args.compute_gradient
  /\ \E n \in Nodes : lat.nodes[n].jmu_net # Zero4
  /\ \E n \in Nodes :
       UpdatedNode(n, ensembles, args.par, args.dens_type,
                   args.compute_gradient).jmu_net # lat.nodes[n].jmu_net

\* C2: in finite-difference mode, when update_lattice returns, old_jmu[i]
\* equals, for every node i, the jmu_net() that lattice node i held when
\* update_lattice was entered.
C2_OldIsEntryCurrent ==
  (l_pc = "done" /\ Effective /\ FiniteDifferenceMode) =>
    \A n \in Nodes : old_jmu[n] = entry.lat.nodes[n].jmu_net

\* the main update has changed the current of a node that was not zero
C2_Witness ==
  /\ l_pc = "done"
  /\ Effective
  /\ FiniteDifferenceMode
  /\ \E n \in Nodes : /\ entry.lat.nodes[n].jmu_net # Zero4
                      /\ lat.nodes[n].jmu_net # entry.lat.nodes[n].jmu_net
                      /\ old_jmu[n] # entry.old_jmu[n]

\* C3: in finite-difference mode, when update_lattice returns, every lattice
\* node k holds as its four-gradient the four components of
\* four_grad_lattice[k] (same index), whatever gradient the main accumulation
\* had written into the node, also when compute_gradient was true.
C3_GradientOverwritten ==
  (l_pc = "done" /\ Effective /\ FiniteDifferenceMode) =>
    \A k \in Nodes :
      \A c \in 1..4 : lat.nodes[k].djmu_dxnu[c] = four_grad_lattice[k][c]

\* the main update had written another, analytic gradient, and the gradients
\* of the nodes differ
C3_Witness ==
  /\ l_pc = "done"
  /\ Effective
  /\ FiniteDifferenceMode
  /\ args.compute_gradient
  /\ \E k \in Nodes :
       LET analytic == UpdatedNode(k, ensembles, args.par, args.dens_type,
                                   TRUE).djmu_dxnu
       IN /\ analytic # ZeroGradient
          /\ analytic # four_grad_lattice[k]
          /\ lat.nodes[k].djmu_dxnu = four_grad_lattice[k]
  /\ \E j, k \in Nodes : four_grad_lattice[j] # four_grad_lattice[k]

\* C4: in finite-difference mode the steps are strictly ordered: when
\* compute_four_gradient_lattice is invoked every node of old_jmu holds the
\* pre-update current and every node of new_jmu the post-update current of
\* the same node, and until the gradient lattice has been computed for all
\* nodes no node's gradient is overwritten (the nodes hold what the main
\* update gave them); the nodes are then overwritten one after the other.
C4_StepsOrdered ==
  LET updated(n) == UpdatedNode(n, ensembles, args.par, args.dens_type,
                                args.compute_gradient)
  IN /\ l_pc = "grad" =>
          \A n \in Nodes : /\ old_jmu[n] = entry.lat.nodes[n].jmu_net
                           /\ new_jmu[n] = updated(n).jmu_net
                           /\ lat.nodes[n] = updated(n)
     /\ l_pc = "snap_new" => \A n \in Nodes : lat.nodes[n] = updated(n)
     /\ l_pc = "overwrite" =>
          /\ four_grad_lattice =
               FourGradient([n \in Nodes |-> updated(n).jmu_net],
                            [n \in Nodes |-> entry.lat.nodes[n].jmu_net],
                            args.time_step)
          /\ \A n \in Nodes :
               n >= l_i => lat.nodes[n].djmu_dxnu = updated(n).djmu_dxnu

\* the gradient lattice is complete, the first node is overwritten and the
\* last one still holds the analytic gradient
C4_Witness ==
  /\ l_pc = "overwrite"
  /\ l_i = NumNodes
  /\ args.compute_gradient
  /\ lat.nodes[1].djmu_dxnu = four_grad_lattice[1]
  /\ lat.nodes[NumNodes].djmu_dxnu # four_grad_lattice[NumNodes]
  /\ \E n \in Nodes : old_jmu[n] # new_jmu[n] /\ old_jmu[n] # Zero4

\* C5: when the derivative mode is not finite-difference, update_lattice
\* never reads or writes old_jmu, new_jmu or four_grad_lattice (they may be
\* null): it never reaches the steps that use them, and only the primary
\* lattice is mutated.
C5_AuxiliaryUntouched ==
  (InCall /\ ~FiniteDifferenceMode) =>
    /\ touched = {}
    /\ l_pc \in {"main", "done"}
    /\ old_jmu = entry.old_jmu
    /\ new_jmu = entry.new_jmu
    /\ four_grad_lattice = entry.four_grad_lattice

\* an effective call with null auxiliary pointers has changed the lattice
C5_Witness ==
  /\ l_pc = "done"
  /\ Effective
  /\ ~FiniteDifferenceMode
  /\ args.aux_null
  /\ lat # entry.lat

\* a step that belongs to a call of update_lattice
StepOfCall == l_pc # "idle" \/ l_pc' # "idle"

\* the call under way is effective and takes finite differences
EffectiveFiniteDifference ==
  /\ ~args.lat_null
  /\ lat.when_update = args.update
  /\ args.par.derivatives = "FiniteDifference"

\* C27: when an effective call with finite differences is done, old_jmu
\* holds at every node what new_jmu held when the call was entered, which is
\* what the effective call before it left there; the lattices start out
\* with zeros.
C27_OldIsPreviousNew ==
  (l_pc = "done" /\ EffectiveFiniteDifference) =>
    \A n \in Nodes : old_jmu[n] = entry.new_jmu[n]

\* the end of a second effective call, after the particles have moved
C27_Witness ==
  /\ l_pc = "done"
  /\ EffectiveFiniteDifference
  /\ entry.new_jmu # [n \in Nodes |-> <<0, 0, 0, 0>>]
  /\ old_jmu = entry.new_jmu
  /\ new_jmu # old_jmu
  /\ \E n \in Nodes : four_grad_lattice[n][1] # <<0, 0, 0, 0>>

\* C18: update_lattice and current_eckart treat the particle ensembles as
\* read-only: no step of a call changes the momentum, position or species of
\* any particle of any ensemble, so they are after the call what they were
\* before it; the only state a call changes is the primary lattice and, in
\* finite-difference mode, the three auxiliary lattices.
C18_EnsemblesReadOnly ==
  [][StepOfCall =>
       /\ ensembles' = ensembles
       /\ (l_pc # "idle" => args' = args)
       /\ (~FiniteDifferenceMode =>
             /\ old_jmu' = old_jmu
             /\ new_jmu' = new_jmu
             /\ four_grad_lattice' = four_grad_lattice)]_vars

\* the return of a finite-difference call that read two ensembles and wrote
\* the primary lattice and the auxiliary ones
C18_Witness ==
  /\ l_pc = "done"
  /\ Effective
  /\ FiniteDifferenceMode
  /\ Len(ensembles) = 2
  /\ Len(ensembles[1]) = 2
  /\ lat # entry.lat
  /\ new_jmu # entry.new_jmu
  /\ four_grad_lattice # entry.four_grad_lattice

-----------------------------------------------------------------------------
(* Claims on setup_config_and_logging *)

\* what the step on one key does to its entry, given which entries count as
\* an existing entry of the config
FileIsSuperior(before, after, file, default, existing) ==
  /\ file # "" => after = "contents of " \o file
  /\ (file = "" /\ existing) => after = before
  /\ (file = "" /\ ~existing) => after = default

\* C19 (as stated): an external file is superior to the config: with a
\* non-empty particles_file the "particles" entry is the content loaded from
\* the file; with an empty particles_file an existing "particles" entry of
\* the config is kept unchanged and the defaults are filled in only if the
\* config has no such entry; the same for "decaymodes" and decaymodes_file.
C19_ExistingEntryKept ==
  [][/\ s_pc = "particles" =>
          /\ FileIsSuperior(configuration.particles, configuration'.particles,
                            particles_file, "default particles",
                            configuration.particles # "<undefined>")
          /\ configuration'.decaymodes = configuration.decaymodes
     /\ s_pc = "decaymodes" =>
          /\ FileIsSuperior(configuration.decaymodes,
                            configuration'.decaymodes, decaymodes_file,
                            "default decaymodes",
                            configuration.decaymodes # "<undefined>")
          /\ configuration'.particles = configuration.particles]_vars

\* C19 (amended): as above, where an entry of the config is kept only if it
\* has a non-empty value; an entry that is there but empty (null) is
\* replaced by the defaults like a missing one.
C19_NonEmptyEntryKept ==
  [][/\ s_pc = "particles" =>
          /\ FileIsSuperior(configuration.particles, configuration'.particles,
                            particles_file, "default particles",
                            configuration.particles \notin
                              {"<undefined>", "~"})
          /\ configuration'.decaymodes = configuration.decaymodes
     /\ s_pc = "decaymodes" =>
          /\ FileIsSuperior(configuration.decaymodes,
                            configuration'.decaymodes, decaymodes_file,
                            "default decaymodes",
                            configuration.decaymodes \notin
                              {"<undefined>", "~"})
          /\ configuration'.particles = configuration.particles]_vars

\* the return after a conflict on the particles, decided for the file, and
\* decaymodes of the command line kept, no file being given for them
C19_Witness ==
  /\ s_pc = "returned"
  /\ particles_file = "particles.txt"
  /\ "particles" \in warnings
  /\ configuration.particles = "contents of particles.txt"
  /\ decaymodes_file = ""
  /\ configuration.decaymodes = "decaymodes of the option"

-----------------------------------------------------------------------------
(* Claims on SphereModus *)

\* a PDG code is given under Sphere: Jet: Jet_PDG
JetSpecified == modus_config.Jet_PDG \notin {"<undefined>", "~"}

\* the number of particles of the sphere itself
SphereSize == modus_config.Init_Multiplicities

\* the particles have been through the "Make total 3-momentum 0" step
AfterCentering == sph_pc \in {"jet", "recalculate", "returned"}

\* the particles created before the jet
SphereParticles == SubSeq(particles, 1, SphereSize)

\* C24: after the centering step the 3-momenta of the particles of the
\* sphere add up to zero in every component, up to the rounding of the
\* division by the number of particles (less than one unit of the last
\* digit per particle).
C24_CenteredSumIsZero ==
  (AfterCentering /\ SphereSize > 0) =>
    \A c \in 1..3 :
      Abs(TotalMomentum(SphereParticles, SphereSize)[c]) < SphereSize

\* without the radial boost the sum is zero in this sense
C24_CenteredSumIsZeroUnboosted ==
  (AfterCentering /\ SphereSize > 0 /\ modus.radial_velocity_ <= 0) =>
    \A c \in 1..3 :
      Abs(TotalMomentum(SphereParticles, SphereSize)[c]) < SphereSize

\* C20: SphereModus produces a jet only if Jet_PDG is specified: without it
\* initial_conditions creates no extra particle; with it exactly one extra
\* particle of that type is created, after the momentum-centering step, at
\* position (start_time, 0, 0, 0), with formation time start_time and
\* 3-momentum (Jet_Momentum, 0, 0), not shifted by the centering.
C20_JetOnlyIfSpecified ==
  LET start == IF modus_config.Start_Time = <<>> THEN 0
               ELSE modus_config.Start_Time[1]
      jet_mom == IF modus_config.Jet_Momentum = <<>> THEN 20 * Scale
                 ELSE modus_config.Jet_Momentum[1]
  IN /\ sph_pc \in {"sample", "center", "jet"} =>
          /\ Len(particles) = SphereSize
          /\ \A i \in 1..SphereSize : particles[i].pdgcode = "111"
     /\ (sph_pc \in {"recalculate", "returned"} /\ ~JetSpecified) =>
          /\ Len(particles) = SphereSize
          /\ \A i \in 1..SphereSize : particles[i].pdgcode = "111"
     /\ (sph_pc \in {"recalculate", "returned"} /\ JetSpecified) =>
          /\ Len(particles) = SphereSize + 1
          /\ \A i \in 1..SphereSize : particles[i].pdgcode = "111"
          /\ particles[SphereSize + 1].pdgcode = modus_config.Jet_PDG
          /\ particles[SphereSize + 1].position = <<start, 0, 0, 0>>
          /\ particles[SphereSize + 1].formation_time = start
          /\ particles[SphereSize + 1].threevec = <<jet_mom, 0, 0>>

\* a jet was added to a sphere of two particles whose momenta the centering
\* had shifted
C20_Witness ==
  /\ sph_pc = "returned"
  /\ JetSpecified
  /\ SphereSize = 2
  /\ Len(particles) = 3
  /\ particles[1].threevec \notin SampledMomenta
  /\ \A c \in 1..3 :
       particles[1].threevec[c] + particles[2].threevec[c] = 0
  /\ particles[3].pdgcode = "211"
  /\ particles[3].threevec = <<3 * Scale, 0, 0>>
  /\ momentum_total = <<3 * Scale, 0, 0>>

-----------------------------------------------------------------------------
(* Claims on ScatterActionPhoton *)

\* C21: the photon reaction-type classifier returns a reaction other than
\* no_reaction for a pi+ pi- pair and for a charged rho with an oppositely
\* charged pion (rho+ pi-), and returns no_reaction for every pair that
\* contains a nucleon or an eta.
C21_ClassifiesPairs ==
  ph_pc = "done" =>
    /\ ph_in = <<"pi_p", "pi_m">> => ph_out # "no_reaction"
    /\ ph_in = <<"rho_p", "pi_m">> => ph_out # "no_reaction"
    /\ (Len(ph_in) = 2 /\ \E i \in 1..2 : ph_in[i] \in {"p", "n", "eta"})
         => ph_out = "no_reaction"

-----------------------------------------------------------------------------
(* Claims on Configuration and initalize *)

\* C23: after initalize the strings fed into the hash context besides the
\* version are the particle list and the decay-mode list that the type list
\* and the decay modes were created from.
C23_HashHoldsLists ==
  c_last.op = "initalize" =>
    /\ hash_input[2] = created_from[1]
    /\ hash_input[3] = created_from[2]

\* has_value and has_value_including_empty, as the member functions compute
\* them on a tree
has_value_at(root, keys) ==
  IsDefined(find_node_at(root, keys)) /\ ~IsNull(find_node_at(root, keys))

has_value_including_empty(root, keys) == IsDefined(find_node_at(root, keys))

\* a key path that is neither the taken one nor below it
OtherKeys(keys) ==
  {other \in KeyPaths : other # keys /\ ~(Len(keys) = 1 /\ other[1] = keys[1])}

\* C28: a take of a key that had a value leaves that key without a value,
\* also for has_value_including_empty, and leaves the node of every other
\* key as it was; a read leaves the whole tree as it was.
C28_TakeConsumesReadKeeps ==
  [][\A keys \in KeyPaths :
       /\ (c_last'.op = "take" /\ c_last'.keys = keys
           /\ has_value_at(root_node_, keys))
          => /\ ~has_value_at(root_node_', keys)
             /\ ~has_value_including_empty(root_node_', keys)
             /\ \A other \in OtherKeys(keys) :
                  find_node_at(root_node_', other)
                    = find_node_at(root_node_, other)
       /\ (c_last'.op = "read" /\ c_last'.keys = keys)
          => root_node_' = root_node_]_vars

C28_Witness ==
  /\ c_last = Returned("take", <<"General", "Modus">>, "List")
  /\ root_node_.General.kind = "Map"
  /\ ~IsDefined(root_node_.General.children["Modus"])
  /\ root_node_.General.children["End_Time"] = Leaf("Scalar", "List")
  /\ root_node_.particles = Scalar("pions")

\* C29: a call of unused_values_report leaves to_string, has_value and
\* has_value_including_empty of every key path as they were.
C29_ReportObserves ==
  [][c_last'.op = "unused_values_report" =>
       /\ to_string(root_node_') = to_string(root_node_)
       /\ \A keys \in KeyPaths :
            /\ has_value_at(root_node_', keys) = has_value_at(root_node_, keys)
            /\ has_value_including_empty(root_node_', keys)
                 = has_value_including_empty(root_node_, keys)]_vars

-----------------------------------------------------------------------------
(* Claims on the sampling of t *)

\* C30: when the loop has ended t has been drawn in it at least once and at
\* most 100 times, and the t it ends with lies in the range [t1, t2].
C30_EndsWithinRange ==
  gfs.pc = "sampled" =>
    /\ gfs.iteration_number \in 1..100
    /\ gfs.t1 <= gfs.t /\ gfs.t <= gfs.t2

\* the number of draws alone
C30_DrawsBounded ==
  /\ gfs.iteration_number \in 0..100
  /\ gfs.pc = "sampled" => gfs.iteration_number \in 1..100

-----------------------------------------------------------------------------
(* Claims on current_eckart *)

\* the particle of the pass about to run, its weight and its mass
CurParticle == e_in.plist[e_idx]

CurWeight == density_factor(CurParticle.type, e_in.dens_type)

CurContributes ==
  /\ Abs(CurWeight) >= really_small
  /\ FVabs(CurParticle.momentum) >= really_small

\* momentum * (weight / energy), times the kernel weight when smearing
CurAdded ==
  LET mom == CurParticle.momentum
      tmp == VScale(mom, Div(CurWeight, mom[1]))
      kernel == unnormalized_smearing_factor(
                  VSub(threevec(CurParticle.position), e_in.r), mom,
                  Div(Num(1), FVabs(mom)), e_in.par, e_in.compute_gradient)
  IN IF e_in.smearing THEN VScale(tmp, kernel.first) ELSE tmp

\* C6: every contributing particle is added to exactly one of the two running
\* sums, to jmu_pos when its density-type weight is positive and to jmu_neg
\* when it is negative, with and without smearing; the sign of a component of
\* the contribution plays no role (jmu_pos keeps a non-negative and jmu_neg a
\* non-positive time component), and the sums are combined only by the code
\* after the loop.
C6_SignDecomposition ==
  [][/\ (e_pc = "loop" /\ e_idx <= Len(e_in.plist)) =>
          /\ e_out' = e_out
          /\ e_pc' = "loop"
          /\ IF ~CurContributes
             THEN jmu_pos' = jmu_pos /\ jmu_neg' = jmu_neg
             ELSE IF CurWeight > 0
             THEN jmu_pos' = VAdd(jmu_pos, CurAdded) /\ jmu_neg' = jmu_neg
             ELSE jmu_neg' = VAdd(jmu_neg, CurAdded) /\ jmu_pos' = jmu_pos
          /\ jmu_pos'[1] >= 0
          /\ jmu_neg'[1] <= 0
     /\ (e_pc = "loop" /\ e_pc' = "done") =>
          /\ jmu_pos' = jmu_pos /\ jmu_neg' = jmu_neg
          /\ e_out'.jmu = VScale(VAdd(jmu_pos, jmu_neg),
                                 e_in.par.norm_factor_sf)
    ]_vars

C6_Witness ==
  /\ e_pc = "done"
  /\ e_in.smearing
  /\ jmu_pos[1] > 0
  /\ jmu_pos[2] < 0
  /\ jmu_neg[1] < 0
  /\ jmu_neg[2] < 0

\* two particles of opposite weights w and -w, of momenta (E, p) and (E, -p),
\* at positions x and -x relative to the field point
SymmetricPair ==
  /\ Len(e_in.plist) = 2
  /\ LET a == e_in.plist[1]
         b == e_in.plist[2]
         wa == density_factor(a.type, e_in.dens_type)
         wb == density_factor(b.type, e_in.dens_type)
     IN /\ wa # 0
        /\ wa = -wb
        /\ a.momentum[1] = b.momentum[1]
        /\ threevec(a.momentum) # Zero3
        /\ \A k \in 2..4 : a.momentum[k] = -b.momentum[k]
        /\ \A k \in 1..3 : threevec(a.position)[k] - e_in.r[k]
                             = -(threevec(b.position)[k] - e_in.r[k])

\* C7 as stated: for two particles of equal-magnitude, opposite-sign weights
\* with back-to-back momenta placed symmetrically about the field point the
\* Eckart density returned is strictly positive.
C7_SymmetricPairPositive ==
  (e_pc = "done" /\ SymmetricPair) => e_out.rho_eck > 0

\* C7 amended: for such a pair the Eckart density returned is exactly zero
\* (the norms of jmu_pos and jmu_neg are equal and cancel), it is never
\* strictly positive; in the combined four-current it is the time component
\* that cancels, while the spatial parts of the two sums are equal and add.
C7_SymmetricPairZero ==
  (e_pc = "done" /\ SymmetricPair) =>
    /\ e_out.rho_eck = 0
    /\ FVabs(jmu_pos) = FVabs(jmu_neg)
    /\ e_out.jmu[1] = 0
    /\ threevec(e_out.jmu) =
         VScale(VAdd(threevec(jmu_pos), threevec(jmu_pos)),
                e_in.par.norm_factor_sf)

C7_Witness ==
  /\ e_pc = "done"
  /\ SymmetricPair
  /\ e_in.smearing
  /\ FVabs(jmu_pos) > 0
  /\ e_out.jmu[2] # 0
  /\ e_out.rho_eck = 0

\* the particle has a weight of magnitude below really_small or an invariant
\* mass below really_small
NegligibleWeight(p) ==
  Abs(density_factor(p.type, e_in.dens_type)) < really_small

NegligibleMass(p) == FVabs(p.momentum) < really_small

RECURSIVE SumsWithout(_, _)
\* the sums of the first n particles of plist with the negligible ones
\* removed: every remaining particle is accumulated
SumsWithout(plist, n) ==
  IF n = 0 THEN EmptySums
  ELSE IF NegligibleWeight(plist[n]) \/ NegligibleMass(plist[n])
  THEN SumsWithout(plist, n - 1)
  ELSE Accumulate(SumsWithout(plist, n - 1), plist[n],
                  density_factor(plist[n].type, e_in.dens_type), e_in.r,
                  e_in.par, e_in.compute_gradient, e_in.smearing)

\* C11: a particle whose density-type weight has magnitude below really_small,
\* or whose invariant mass is below really_small, is skipped before any
\* division by its mass or weight (no division by zero is ever evaluated) and
\* changes none of the five outputs: the sums and the result are those of the
\* particle list with that particle removed.
C11_NegligibleSkipped ==
  /\ e_pc = "loop" =>
       [jmu_pos |-> jmu_pos, jmu_neg |-> jmu_neg, djmu_dx |-> djmu_dx]
         = SumsWithout(e_in.plist, e_idx - 1)
  /\ e_pc = "done" =>
       e_out = EckartResult(SumsWithout(e_in.plist, Len(e_in.plist)),
                            e_in.par, e_in.compute_gradient)

\* a particle with a weight and no mass was skipped, another one contributed
C11_Witness ==
  /\ e_pc = "done"
  /\ e_in.compute_gradient
  /\ e_in.smearing
  /\ \E n \in 1..Len(e_in.plist) :
       ~NegligibleWeight(e_in.plist[n]) /\ NegligibleMass(e_in.plist[n])
  /\ e_out.rho_eck # 0
  /\ e_out.rho_grad # Zero3

\* the sums of momentum * (weight / energy) over the particles of a list
\* that are not skipped, by the sign of the weight; no position enters
RECURSIVE UnsmearedSums(_, _, _)
UnsmearedSums(plist, n, dens_type) ==
  IF n = 0 THEN [pos |-> <<0, 0, 0, 0>>, neg |-> <<0, 0, 0, 0>>]
  ELSE LET rest == UnsmearedSums(plist, n - 1, dens_type)
           p == plist[n]
           weight == density_factor(p.type, dens_type)
           term == [c \in 1..4 |->
                      Mul(p.momentum[c], Div(weight, p.momentum[1]))]
       IN IF NegligibleWeight(p) \/ NegligibleMass(p) THEN rest
          ELSE IF weight > 0
          THEN [rest EXCEPT !.pos = [c \in 1..4 |-> @[c] + term[c]]]
          ELSE [rest EXCEPT !.neg = [c \in 1..4 |-> @[c] + term[c]]]

\* C25: without smearing the Eckart density and the four-current returned
\* are those of the sums of momentum * (weight / energy) over the particles
\* that are not skipped: neither the field point nor a position nor the
\* kernel enters, also for particles beyond the cutoff.
C25_UnsmearedIgnoresPositions ==
  (e_pc = "done" /\ ~e_in.smearing) =>
    LET s == UnsmearedSums(e_in.plist, Len(e_in.plist), e_in.dens_type)
        norm == e_in.par.norm_factor_sf
    IN /\ e_out.rho_eck = Mul(FVabs(s.pos) - FVabs(s.neg), norm)
       /\ e_out.jmu = [c \in 1..4 |-> Mul(s.pos[c] + s.neg[c], norm)]

\* the return without smearing for a list whose first particle is counted
\* and lies beyond the cutoff
C25_Witness ==
  /\ e_pc = "done"
  /\ ~e_in.smearing
  /\ Len(e_in.plist) = 2
  /\ ~NegligibleWeight(e_in.plist[1]) /\ ~NegligibleMass(e_in.plist[1])
  /\ sqr3(VSub(threevec(e_in.plist[1].position), e_in.r))
       > e_in.par.r_cut_sqr
  /\ unnormalized_smearing_factor(
       VSub(threevec(e_in.plist[1].position), e_in.r),
       e_in.plist[1].momentum,
       Div(Num(1), FVabs(e_in.plist[1].momentum)), e_in.par, FALSE).first = 0
  /\ e_in.plist[2] = e_in.plist[1]
  /\ e_out.rho_eck # 0
  /\ e_out.jmu # <<0, 0, 0, 0>>

\* the orders in which a list can be visited
Reordered(plist) ==
  {[i \in 1..Len(plist) |-> plist[f[i]]] :
     f \in {g \in [1..Len(plist) -> 1..Len(plist)] :
              \A i, j \in 1..Len(plist) : g[i] = g[j] => i = j}}

\* C26: the five values returned are those current_eckart gives for every
\* other order of the same particles.
C26_OrderIndependent ==
  e_pc = "done" =>
    \A other \in Reordered(e_in.plist) :
      current_eckart(e_in.r, other, e_in.par, e_in.dens_type,
                     e_in.compute_gradient, e_in.smearing) = e_out

\* the return for two different counted particles, with gradients
C26_Witness ==
  /\ e_pc = "done"
  /\ Len(e_in.plist) = 2
  /\ e_in.plist[1] # e_in.plist[2]
  /\ \A n \in 1..2 :
       ~NegligibleWeight(e_in.plist[n]) /\ ~NegligibleMass(e_in.plist[n])
  /\ e_in.smearing
  /\ e_in.compute_gradient
  /\ e_out.rho_eck # 0
  /\ e_out.rho_grad # <<0, 0, 0>>
  /\ Cardinality(Reordered(e_in.plist)) = 2

\* the kernel's result for particle p, as current_eckart_impl calls it
KernelFor(p) ==
  unnormalized_smearing_factor(
    VSub(threevec(p.position), e_in.r), p.momentum,
    Div(Num(1), FVabs(p.momentum)), e_in.par, e_in.compute_gradient)

\* C15: when compute_gradient is false, current_eckart returns the zero
\* vector for the gradient of the density, the time derivative of the
\* 3-current and the curl of the 3-current, for every particle list, and
\* the kernel returns the zero gradient for every particle it is called on.
C15_NoGradientNoDerivatives ==
  ~e_in.compute_gradient =>
    /\ e_pc = "done" =>
         /\ e_out.rho_grad = <<0, 0, 0>>
         /\ e_out.dj_dt = <<0, 0, 0>>
         /\ e_out.j_rot = <<0, 0, 0>>
    /\ \A i \in 1..Len(e_in.plist) :
         ~NegligibleMass(e_in.plist[i]) =>
           KernelFor(e_in.plist[i]).second = <<0, 0, 0>>

\* a smeared particle off the field point, within the cutoff, that has
\* contributed a current: its kernel gradient would not vanish
C15_Witness ==
  /\ e_pc = "done"
  /\ ~e_in.compute_gradient
  /\ e_in.smearing
  /\ e_in.r = <<0, 0, 0>>
  /\ e_in.plist = <<a_proton>>
  /\ e_in.dens_type = "Baryon"
  /\ KernelFor(a_proton).first > 0
  /\ e_out.jmu[1] > 0
  /\ e_out.jmu[2] # 0

\* C16: current_eckart on an empty particle collection returns density 0,
\* the zero four-current and zero derivative vectors, for every density
\* type and every combination of the gradient and smearing flags.
C16_EmptyListZero ==
  (e_pc = "done" /\ Len(e_in.plist) = 0) =>
    /\ e_out.rho_eck = 0
    /\ e_out.jmu = <<0, 0, 0, 0>>
    /\ e_out.rho_grad = <<0, 0, 0>>
    /\ e_out.dj_dt = <<0, 0, 0>>
    /\ e_out.j_rot = <<0, 0, 0>>

\* the return from a call on the empty list with both flags set
C16_Witness ==
  /\ e_pc = "done"
  /\ e_in.plist = <<>>
  /\ e_in.compute_gradient
  /\ e_in.smearing
  /\ e_in.dens_type = "Charge"
  /\ e_idx = 1

\* a single particle of weight 1, energy 1 and zero 3-momentum at the origin
AtRestAtOrigin ==
  /\ Len(e_in.plist) = 1
  /\ e_in.plist[1].position = <<0, 0, 0, 0>>
  /\ e_in.plist[1].momentum = <<Scale, 0, 0, 0>>
  /\ density_factor(e_in.plist[1].type, e_in.dens_type) = Scale

\* C17: for one particle of density-type weight 1, energy 1 and zero
\* 3-momentum at the origin, with cutoff 5, two_sig_sqr_inv 0.5 and
\* normalization factor 1, current_eckart at the field point (0,0,0) with
\* smearing yields kernel weight 1, Eckart density 1 and four-current
\* (1,0,0,0).
C17_UnitParticle ==
  (/\ e_pc = "done"
   /\ AtRestAtOrigin
   /\ e_in.par.r_cut_sqr = 25 * Scale
   /\ 2 * e_in.par.two_sig_sqr_inv = Scale
   /\ e_in.par.norm_factor_sf = Scale
   /\ e_in.r = <<0, 0, 0>>
   /\ e_in.smearing)
    => /\ KernelFor(e_in.plist[1]).first = Scale
       /\ e_out.rho_eck = Scale
       /\ e_out.jmu = <<Scale, 0, 0, 0>>

\* the return for a pi+ at rest at the origin, counted by its charge
C17_Witness ==
  /\ e_pc = "done"
  /\ AtRestAtOrigin
  /\ e_in.plist = <<a_pi_plus>>
  /\ e_in.dens_type = "Charge"
  /\ e_in.par = WideParameters
  /\ e_in.par.r_cut_sqr = 25 * Scale
  /\ e_in.r = <<0, 0, 0>>
  /\ e_in.smearing
  /\ e_out.rho_eck = Scale

-----------------------------------------------------------------------------
(* Claims on the kernel *)

\* r.r of the kernel call
KRSqr == sqr3(k_in.r)

\* r.r + (r.u_spatial)^2 of the kernel call, u = p * m_inv
KRestSqr ==
  LET ur == Dot3(k_in.r, threevec(VScale(k_in.p, k_in.m_inv)))
  IN sqr3(k_in.r) + Mul(ur, ur)

\* C8: whenever r.r is strictly greater than r_cut_sqr the kernel returns
\* weight 0 and the zero gradient, for every momentum, every inverse mass and
\* either value of the gradient flag.
C8_BeyondCutoffIsZero ==
  (k_pc = "done" /\ KRSqr > k_in.par.r_cut_sqr)
    => (k_out.first = 0 /\ k_out.second = <<0, 0, 0>>)

C8_Witness ==
  /\ k_pc = "done"
  /\ KRSqr > k_in.par.r_cut_sqr
  /\ k_in.compute_gradient
  /\ k_in.p[2] # 0
  /\ k_out.first = 0

\* C9 as stated: a particle exactly at the cutoff boundary (r.r equal to
\* r_cut_sqr, or rest-frame distance squared equal to r_cut_sqr) gets
\* weight 0.
C9_BoundaryExcluded ==
  (k_pc = "done"
     /\ (KRSqr = k_in.par.r_cut_sqr \/ KRestSqr = k_in.par.r_cut_sqr))
    => k_out.first = 0

\* C9 amended: a particle whose rest-frame distance squared equals r_cut_sqr
\* (which covers r.r = r_cut_sqr for a particle that does not move along r)
\* is included: the kernel returns the non-zero weight
\* exp(-r_cut_sqr * two_sig_sqr_inv) * u0; only distances strictly greater
\* than the cutoff are rejected.
C9_BoundaryIncluded ==
  (k_pc = "done" /\ KRestSqr = k_in.par.r_cut_sqr)
    => /\ k_out.first > 0
       /\ k_out.first =
            Mul(Exp(-Mul(k_in.par.r_cut_sqr, k_in.par.two_sig_sqr_inv)),
                Mul(k_in.p[1], k_in.m_inv))

C9_Witness ==
  /\ k_pc = "done"
  /\ KRestSqr = k_in.par.r_cut_sqr
  /\ KRSqr < k_in.par.r_cut_sqr
  /\ k_out.first > 0

\* C10: the cutoff is applied in the rest frame of the particle: the weight
\* is 0 whenever r_rest^2 = r.r + (r.u_spatial)^2 exceeds r_cut_sqr, even if
\* r.r does not; a non-zero weight is returned only when both r.r and r_rest^2
\* are at most r_cut_sqr.
C10_RestFrameCutoff ==
  k_pc = "done" =>
    /\ (KRestSqr > k_in.par.r_cut_sqr => k_out.first = 0)
    /\ (k_out.first # 0 => /\ KRSqr <= k_in.par.r_cut_sqr
                           /\ KRestSqr <= k_in.par.r_cut_sqr)

C10_Witness ==
  /\ k_pc = "done"
  /\ KRSqr <= k_in.par.r_cut_sqr
  /\ KRestSqr > k_in.par.r_cut_sqr
  /\ k_out.first = 0

====
